---- MODULE Spec2Model ----
(***************************************************************************)
(* A model of the registrar crate: the name.com client (HTTP-status driven *)
(* responses, Basic auth), the porkbun client (JSON envelope responses)    *)
(* and the list operations that aggregate pages over repeated requests.    *)
(*                                                                         *)
(* One client call is followed from the call to its return.  The server is *)
(* the environment: it answers every request with a response drawn from a  *)
(* bounded set (a network failure, or a status and a body).                *)
(***************************************************************************)
EXTENDS Integers, Sequences, FiniteSets, TLC

(***************************************************************************)
(* Bounds of the model.                                                    *)
(***************************************************************************)
\* Highest page number a name.com server names in nextPage.
MaxPage == 3
\* Most items a server puts in one page or batch.
MaxItems == 2
\* Most requests followed within one call (a sweep against a server that
\* never ends it is cut here).
MaxFetch == 5
\* Most calls of the same list function followed one after the other.
MaxCalls == 2
\* Most requests followed of the second call that runs at the same time.
MaxPeerFetch == 2
\* The registry of the test programs: the jobs registered in one run, and
\* the capacity of the channel (128 in the source, scaled down).
ChannelCapacity == 2
MaxJobs == ChannelCapacity + 1

(***************************************************************************)
(* JSON values and response bodies.  A body is the raw text the server     *)
(* sent together with what serde_json reads out of that text: whether it   *)
(* is a JSON object, and the value of each field the crate's types name.   *)
(* The item arrays of the different list responses (domains, records,      *)
(* urlForwarding, vanityNameservers, ns, forwards, hosts) are all held in  *)
(* the field "items"; "records" is the map of porkbun's DNSSEC records.    *)
(***************************************************************************)
Absent == [t |-> "absent", s |-> "", n |-> 0, a |-> <<>>]
JNull == [t |-> "null", s |-> "", n |-> 0, a |-> <<>>]
JStr(s) == [t |-> "string", s |-> s, n |-> 0, a |-> <<>>]
JNum(n) == [t |-> "number", s |-> "", n |-> n, a |-> <<>>]
JArr(a) == [t |-> "array", s |-> "", n |-> 0, a |-> a]
JObj == [t |-> "object", s |-> "", n |-> 0, a |-> <<>>]

Fields ==
  {"message", "details", "status", "items", "nextPage", "lastPage", "motd",
   "serverName", "serverTime", "username", "yourIp", "pricing", "id",
   "records", "response", "limits", "certificatechain", "privatekey",
   "publickey"}

EmptyObject == [f \in Fields |-> Absent]

\* A body that is not a JSON object.
NotJson(text) == [text |-> text, json |-> FALSE, obj |-> EmptyObject]
\* A body that is a JSON object with the given fields.
Object(text, obj) == [text |-> text, json |-> TRUE, obj |-> obj]

\* With(obj, f, v): obj with field f set to v.
With(obj, f, v) == [obj EXCEPT ![f] = v]

(***************************************************************************)
(* The crate's error type and the outcome of a call.                       *)
(*   kind    "Ok", or the variant of Error: "Http", "Json", "Api"          *)
(*   message the text the error carries                                    *)
(*   value   the decoded value of an Ok                                    *)
(*   reads   how often the body was read from the network                  *)
(***************************************************************************)
Ok(value, reads) ==
  [kind |-> "Ok", message |-> "", value |-> value, reads |-> reads]
Err(kind, message, reads) ==
  [kind |-> kind, message |-> message, value |-> EmptyObject, reads |-> reads]
Pending == [kind |-> "none", message |-> "", value |-> EmptyObject, reads |-> 0]

\* The texts of reqwest's own errors (Display of reqwest::Error).
SendErrorText == "error sending request"
BodyErrorText == "error reading response body"
DecodeErrorText == "error decoding response body"
StatusErrorText == "HTTP status error"
\* The text of a serde_json::Error.
JsonErrorText == "serde_json error"

(***************************************************************************)
(* serde: what each Deserialize type accepts.  A field of type String      *)
(* accepts a JSON string only; Option<_> accepts the value or null, and a  *)
(* missing Option field is None; #[serde(default)] accepts a missing       *)
(* field; unknown fields are ignored.                                      *)
(***************************************************************************)
IsRequired(v, t) == v.t = t
IsDefaulted(v, t) == v.t \in {"absent", t}
IsOption(v, t) == v.t \in {"absent", "null", t}

\* name_com::types::ErrorResponse
ErrorResponse(body) ==
  /\ body.json
  /\ IsRequired(body.obj.message, "string")
  /\ IsDefaulted(body.obj.details, "string")

\* porkbun::types::StatusResponse
StatusResponse(body) ==
  /\ body.json
  /\ IsRequired(body.obj.status, "string")
  /\ IsOption(body.obj.message, "string")

\* name_com::types::Hello
Hello(body) ==
  /\ body.json
  /\ IsDefaulted(body.obj.motd, "string")
  /\ IsRequired(body.obj.serverName, "string")
  /\ IsRequired(body.obj.serverTime, "string")
  /\ IsRequired(body.obj.username, "string")

\* name_com::domain::types::ListDomainsResponse
ListDomainsResponse(body) ==
  /\ body.json
  /\ IsDefaulted(body.obj.items, "array")
  /\ IsOption(body.obj.nextPage, "number")
  /\ IsOption(body.obj.lastPage, "number")

\* name_com::dns::types::ListDnsRecordsResponse
ListDnsRecordsResponse(body) ==
  /\ body.json
  /\ IsDefaulted(body.obj.items, "array")
  /\ IsOption(body.obj.nextPage, "number")
  /\ IsOption(body.obj.lastPage, "number")

\* name_com::url_forwarding::types::ListUrlForwardingResponse
ListUrlForwardingResponse(body) ==
  /\ body.json
  /\ IsDefaulted(body.obj.items, "array")
  /\ IsOption(body.obj.nextPage, "number")

\* name_com::vanity_ns::types::ListVanityNsResponse
ListVanityNsResponse(body) ==
  /\ body.json
  /\ IsDefaulted(body.obj.items, "array")
  /\ IsOption(body.obj.nextPage, "number")

\* porkbun::types::PingResponse
PingResponse(body) ==
  /\ body.json
  /\ IsRequired(body.obj.status, "string")
  /\ IsRequired(body.obj.yourIp, "string")

\* porkbun::types::PricingResponse
PricingResponse(body) ==
  /\ body.json
  /\ IsRequired(body.obj.status, "string")
  /\ IsRequired(body.obj.pricing, "object")

\* porkbun::domain::types::DomainListResponse
DomainListResponse(body) ==
  /\ body.json
  /\ IsRequired(body.obj.status, "string")
  /\ IsRequired(body.obj.items, "array")

\* porkbun::dns::types::DnsRecordListResponse
DnsRecordListResponse(body) ==
  /\ body.json
  /\ IsRequired(body.obj.status, "string")
  /\ IsRequired(body.obj.items, "array")

\* porkbun::dns::types::DnsRecordCreateResponse
DnsRecordCreateResponse(body) ==
  /\ body.json
  /\ IsRequired(body.obj.status, "string")
  /\ IsRequired(body.obj.id, "number")

\* porkbun::dns::types::DnssecRecordListResponse
DnssecRecordListResponse(body) ==
  /\ body.json
  /\ IsRequired(body.obj.status, "string")
  /\ IsRequired(body.obj.records, "object")

\* porkbun::domain::types::NameserverListResponse
NameserverListResponse(body) ==
  /\ body.json
  /\ IsRequired(body.obj.status, "string")
  /\ IsRequired(body.obj.items, "array")

\* porkbun::domain::types::UrlForwardListResponse
UrlForwardListResponse(body) ==
  /\ body.json
  /\ IsRequired(body.obj.status, "string")
  /\ IsRequired(body.obj.items, "array")

\* porkbun::domain::types::DomainCheckResponse
DomainCheckResponse(body) ==
  /\ body.json
  /\ IsRequired(body.obj.status, "string")
  /\ IsRequired(body.obj.response, "object")
  /\ IsRequired(body.obj.limits, "object")

\* porkbun::domain::types::GlueRecordListResponse
GlueRecordListResponse(body) ==
  /\ body.json
  /\ IsRequired(body.obj.status, "string")
  /\ IsRequired(body.obj.items, "array")

\* porkbun::ssl::types::SslBundleResponse
SslBundleResponse(body) ==
  /\ body.json
  /\ IsRequired(body.obj.status, "string")
  /\ IsRequired(body.obj.certificatechain, "string")
  /\ IsRequired(body.obj.privatekey, "string")
  /\ IsRequired(body.obj.publickey, "string")

Types ==
  {"Hello", "ListDomainsResponse", "ListDnsRecordsResponse",
   "ListUrlForwardingResponse", "ListVanityNsResponse", "StatusResponse",
   "PingResponse", "PricingResponse", "DomainListResponse",
   "DnsRecordListResponse", "DnsRecordCreateResponse",
   "DnssecRecordListResponse", "NameserverListResponse",
   "UrlForwardListResponse", "DomainCheckResponse", "GlueRecordListResponse",
   "SslBundleResponse"}

\* The fields type T declares.
FieldsOf(T) ==
  CASE T = "Hello" -> {"motd", "serverName", "serverTime", "username"}
    [] T \in {"ListDomainsResponse", "ListDnsRecordsResponse"} ->
         {"items", "nextPage", "lastPage"}
    [] T \in {"ListUrlForwardingResponse", "ListVanityNsResponse"} ->
         {"items", "nextPage"}
    [] T = "StatusResponse" -> {"status", "message"}
    [] T = "PingResponse" -> {"status", "yourIp"}
    [] T = "PricingResponse" -> {"status", "pricing"}
    [] T \in {"DomainListResponse", "DnsRecordListResponse",
               "NameserverListResponse", "UrlForwardListResponse",
               "GlueRecordListResponse"} -> {"status", "items"}
    [] T = "DnsRecordCreateResponse" -> {"status", "id"}
    [] T = "DnssecRecordListResponse" -> {"status", "records"}
    [] T = "DomainCheckResponse" -> {"status", "response", "limits"}
    [] T = "SslBundleResponse" ->
         {"status", "certificatechain", "privatekey", "publickey"}

\* serde_json::from_str::<T>(text) succeeds.
Decodes(T, body) ==
  CASE T = "Hello" -> Hello(body)
    [] T = "ListDomainsResponse" -> ListDomainsResponse(body)
    [] T = "ListDnsRecordsResponse" -> ListDnsRecordsResponse(body)
    [] T = "ListUrlForwardingResponse" -> ListUrlForwardingResponse(body)
    [] T = "ListVanityNsResponse" -> ListVanityNsResponse(body)
    [] T = "StatusResponse" -> StatusResponse(body)
    [] T = "PingResponse" -> PingResponse(body)
    [] T = "PricingResponse" -> PricingResponse(body)
    [] T = "DomainListResponse" -> DomainListResponse(body)
    [] T = "DnsRecordListResponse" -> DnsRecordListResponse(body)
    [] T = "DnsRecordCreateResponse" -> DnsRecordCreateResponse(body)
    [] T = "DnssecRecordListResponse" -> DnssecRecordListResponse(body)
    [] T = "NameserverListResponse" -> NameserverListResponse(body)
    [] T = "UrlForwardListResponse" -> UrlForwardListResponse(body)
    [] T = "DomainCheckResponse" -> DomainCheckResponse(body)
    [] T = "GlueRecordListResponse" -> GlueRecordListResponse(body)
    [] T = "SslBundleResponse" -> SslBundleResponse(body)

\* The value of a field of the decoded T: a missing Option field and a
\* null are both None (held as null), a missing Vec or String with
\* #[serde(default)] is the empty one.
FieldValue(f, v) ==
  IF v.t # "absent" THEN v
  ELSE IF f = "items" THEN JArr(<<>>)
  ELSE IF f \in {"motd", "details"} THEN JStr("")
  ELSE JNull

\* The T that serde_json::from_str::<T> returns for a body it accepts: the
\* fields T declares; the others are dropped.
Decode(T, body) ==
  [f \in Fields |->
     IF f \in FieldsOf(T) THEN FieldValue(f, body.obj[f]) ELSE Absent]

(***************************************************************************)
(* An HTTP exchange as the client sees it: whether send() returned a       *)
(* response, its status, whether the body could be read, and the body.     *)
(***************************************************************************)
Response(sendOk, status, readOk, body) ==
  [sendOk |-> sendOk, status |-> status, readOk |-> readOk, body |-> body]

(***************************************************************************)
(* name_com::client::NameDotCom                                            *)
(***************************************************************************)

\* build_api_error that never parses the text (always the raw text).
build_api_error_RawOnly(response) ==
  Err("Api",
      IF response.readOk THEN response.body.text ELSE BodyErrorText,
      1)

\* build_api_error that propagates the failure to parse the text.
build_api_error_JsonError(response) ==
  LET error_text ==
        IF response.readOk THEN response.body ELSE NotJson(BodyErrorText)
  IN IF ErrorResponse(error_text)
       THEN Err("Api", error_text.obj.message.s, 1)
       ELSE Err("Json", JsonErrorText, 1)

\* build_api_error: the body is read as text, and a failed read yields the
\* read error's own text (unwrap_or_else(|e| e.to_string())); the text is
\* parsed as ErrorResponse and the error is always Error::Api.
build_api_error(response) ==
  LET error_text ==
        IF response.readOk THEN response.body ELSE NotJson(BodyErrorText)
  IN IF ErrorResponse(error_text)
       THEN Err("Api", error_text.obj.message.s, 1)
       ELSE Err("Api", error_text.text, 1)

\* handle_response_with_body that takes every 2xx status as a success.
handle_response_with_body_Any2xx(T, response) ==
  IF response.status >= 200 /\ response.status <= 299
    THEN IF ~response.readOk THEN Err("Http", BodyErrorText, 1)
         ELSE IF ~Decodes(T, response.body) THEN Err("Http", DecodeErrorText, 1)
         ELSE Ok(Decode(T, response.body), 1)
    ELSE build_api_error(response)

\* handle_response_with_body::<T>: response.json() reads the body and
\* decodes it; both of its failures are a reqwest::Error, wrapped as
\* Error::Http.
handle_response_with_body(T, response) ==
  IF response.status \in {200, 201}
    THEN IF ~response.readOk THEN Err("Http", BodyErrorText, 1)
         ELSE IF ~Decodes(T, response.body) THEN Err("Http", DecodeErrorText, 1)
         ELSE Ok(Decode(T, response.body), 1)
    ELSE build_api_error(response)

\* handle_empty_response that takes 200 as a success too.
handle_empty_response_Accept200(response) ==
  IF response.status \in {200, 204}
    THEN Ok(EmptyObject, 0)
    ELSE build_api_error(response)

\* handle_empty_response: 204 is Ok(()) and the response is dropped unread.
handle_empty_response(response) ==
  IF response.status = 204
    THEN Ok(EmptyObject, 0)
    ELSE build_api_error(response)

\* hello, get, post, put, patch: send().await? and then the body handler.
NameDotCom_hello(response) ==
  IF ~response.sendOk THEN Err("Http", SendErrorText, 0)
  ELSE handle_response_with_body("Hello", response)

NameDotCom_get(T, response) ==
  IF ~response.sendOk THEN Err("Http", SendErrorText, 0)
  ELSE handle_response_with_body(T, response)

NameDotCom_post(T, response) ==
  IF ~response.sendOk THEN Err("Http", SendErrorText, 0)
  ELSE handle_response_with_body(T, response)

NameDotCom_put(T, response) ==
  IF ~response.sendOk THEN Err("Http", SendErrorText, 0)
  ELSE handle_response_with_body(T, response)

NameDotCom_patch(T, response) ==
  IF ~response.sendOk THEN Err("Http", SendErrorText, 0)
  ELSE handle_response_with_body(T, response)

\* delete: send().await? and then the handler of empty responses.
NameDotCom_delete(response) ==
  IF ~response.sendOk THEN Err("Http", SendErrorText, 0)
  ELSE handle_empty_response(response)

(***************************************************************************)
(* porkbun::client::Porkbun                                                *)
(***************************************************************************)

\* reqwest's Response::error_for_status: an error for a client or server
\* error status (4xx, 5xx), the response itself otherwise.
error_for_status(status) == status >= 400 /\ status <= 599

\* What is left of a body once its status field has been taken out.
WithoutStatus(body) == [body EXCEPT !.obj.status = Absent]

\* post in which the envelope check consumes the status field: T is decoded
\* from what is left of the body.
Porkbun_post_EnvelopeConsumesStatus(T, response) ==
  IF ~response.sendOk THEN Err("Http", SendErrorText, 0)
  ELSE IF error_for_status(response.status) THEN Err("Http", StatusErrorText, 0)
  ELSE IF ~response.readOk THEN Err("Http", BodyErrorText, 1)
  ELSE LET response_text == response.body
       IN IF ~StatusResponse(response_text) THEN Err("Json", JsonErrorText, 1)
          ELSE IF response_text.obj.status.s = "ERROR"
            THEN Err("Api",
                     IF response_text.obj.message.t = "string"
                       THEN response_text.obj.message.s
                       ELSE "Unknown API error",
                     1)
          ELSE IF ~Decodes(T, WithoutStatus(response_text))
            THEN Err("Json", JsonErrorText, 1)
          ELSE Ok(Decode(T, WithoutStatus(response_text)), 1)

\* post that reads the body from the network for the envelope check and
\* again for the decoding as T.
Porkbun_post_ReadsTwice(T, response) ==
  IF ~response.sendOk THEN Err("Http", SendErrorText, 0)
  ELSE IF error_for_status(response.status) THEN Err("Http", StatusErrorText, 0)
  ELSE IF ~response.readOk THEN Err("Http", BodyErrorText, 1)
  ELSE LET response_text == response.body
       IN IF ~StatusResponse(response_text) THEN Err("Json", JsonErrorText, 1)
          ELSE IF response_text.obj.status.s = "ERROR"
            THEN Err("Api",
                     IF response_text.obj.message.t = "string"
                       THEN response_text.obj.message.s
                       ELSE "Unknown API error",
                     1)
          ELSE IF ~Decodes(T, response_text) THEN Err("Json", JsonErrorText, 2)
          ELSE Ok(Decode(T, response_text), 2)

\* post that reports a body it cannot decode as reqwest's json() would.
Porkbun_post_DecodeIsHttp(T, response) ==
  IF ~response.sendOk THEN Err("Http", SendErrorText, 0)
  ELSE IF error_for_status(response.status) THEN Err("Http", StatusErrorText, 0)
  ELSE IF ~response.readOk THEN Err("Http", BodyErrorText, 1)
  ELSE LET response_text == response.body
       IN IF ~StatusResponse(response_text) THEN Err("Http", DecodeErrorText, 1)
          ELSE IF response_text.obj.status.s = "ERROR"
            THEN Err("Api",
                     IF response_text.obj.message.t = "string"
                       THEN response_text.obj.message.s
                       ELSE "Unknown API error",
                     1)
          ELSE IF ~Decodes(T, response_text) THEN Err("Http", DecodeErrorText, 1)
          ELSE Ok(Decode(T, response_text), 1)

\* post::<T, B>: send, error_for_status, text, then the envelope check on
\* the buffered text and the decoding of the same text as T.
Porkbun_post(T, response) ==
  IF ~response.sendOk THEN Err("Http", SendErrorText, 0)
  ELSE IF error_for_status(response.status) THEN Err("Http", StatusErrorText, 0)
  ELSE IF ~response.readOk THEN Err("Http", BodyErrorText, 1)
  ELSE LET response_text == response.body
       IN IF ~StatusResponse(response_text) THEN Err("Json", JsonErrorText, 1)
          ELSE IF response_text.obj.status.s = "ERROR"
            THEN Err("Api",
                     IF response_text.obj.message.t = "string"
                       THEN response_text.obj.message.s
                       ELSE "Unknown API error",
                     1)
          ELSE IF ~Decodes(T, response_text) THEN Err("Json", JsonErrorText, 1)
          ELSE Ok(Decode(T, response_text), 1)

\* post_unauthenticated without the envelope check: the text is decoded as
\* T at once.
Porkbun_post_unauthenticated_NoEnvelope(T, response) ==
  IF ~response.sendOk THEN Err("Http", SendErrorText, 0)
  ELSE IF error_for_status(response.status) THEN Err("Http", StatusErrorText, 0)
  ELSE IF ~response.readOk THEN Err("Http", BodyErrorText, 1)
  ELSE IF ~Decodes(T, response.body) THEN Err("Json", JsonErrorText, 1)
  ELSE Ok(Decode(T, response.body), 1)

\* post_unauthenticated::<T>: the same handling as post.
Porkbun_post_unauthenticated(T, response) ==
  IF ~response.sendOk THEN Err("Http", SendErrorText, 0)
  ELSE IF error_for_status(response.status) THEN Err("Http", StatusErrorText, 0)
  ELSE IF ~response.readOk THEN Err("Http", BodyErrorText, 1)
  ELSE LET response_text == response.body
       IN IF ~StatusResponse(response_text) THEN Err("Json", JsonErrorText, 1)
          ELSE IF response_text.obj.status.s = "ERROR"
            THEN Err("Api",
                     IF response_text.obj.message.t = "string"
                       THEN response_text.obj.message.s
                       ELSE "Unknown API error",
                     1)
          ELSE IF ~Decodes(T, response_text) THEN Err("Json", JsonErrorText, 1)
          ELSE Ok(Decode(T, response_text), 1)

(***************************************************************************)
(* The public functions of the porkbun client and of its sub-clients       *)
(* Domain, Dns and Ssl (list_all is with the list operations below).       *)
(***************************************************************************)
Porkbun_ping(response) == Porkbun_post("PingResponse", response)

Porkbun_get_pricing(response) ==
  Porkbun_post_unauthenticated("PricingResponse", response)

\* The Vec of items a call returns.
ItemsValue(all) == With(EmptyObject, "items", JArr(all))

\* let response: T = self.client.post(..).await?; Ok(response.f)
ResponseField(r, f) ==
  IF r.kind # "Ok" THEN r
  ELSE Ok(With(EmptyObject, f, r.value[f]), r.reads)

Dns_create_record(response) ==
  Porkbun_post("DnsRecordCreateResponse", response)

Dns_edit_record_by_id(response) == Porkbun_post("StatusResponse", response)

Dns_delete_record_by_id(response) == Porkbun_post("StatusResponse", response)

Dns_retrieve_all_records(response) ==
  ResponseField(Porkbun_post("DnsRecordListResponse", response), "items")

\* retrieve_record_by_id that takes an error of the API for "not found".
Dns_retrieve_record_by_id_ErrorIsNone(response) ==
  LET r == Porkbun_post("DnsRecordListResponse", response)
  IN IF r.kind = "Api" THEN Ok(ItemsValue(<<>>), r.reads)
     ELSE IF r.kind # "Ok" THEN r
     ELSE Ok(ItemsValue(IF r.value.items.a = <<>> THEN <<>>
                        ELSE <<Head(r.value.items.a)>>),
             r.reads)

\* Ok(response.records.into_iter().next()): the Option<DnsRecord> is held as
\* a sequence of at most one record.
Dns_retrieve_record_by_id(response) ==
  LET r == Porkbun_post("DnsRecordListResponse", response)
  IN IF r.kind # "Ok" THEN r
     ELSE Ok(ItemsValue(IF r.value.items.a = <<>> THEN <<>>
                        ELSE <<Head(r.value.items.a)>>),
             r.reads)

Dns_retrieve_records_by_name_type(response) ==
  ResponseField(Porkbun_post("DnsRecordListResponse", response), "items")

Dns_create_dnssec_record(response) == Porkbun_post("StatusResponse", response)

Dns_get_dnssec_records(response) ==
  ResponseField(Porkbun_post("DnssecRecordListResponse", response), "records")

Dns_delete_dnssec_record(response) == Porkbun_post("StatusResponse", response)

Domain_update_nameservers(response) == Porkbun_post("StatusResponse", response)

Domain_get_nameservers(response) ==
  Porkbun_post("NameserverListResponse", response)

Domain_add_url_forward(response) == Porkbun_post("StatusResponse", response)

Domain_get_url_forwarding(response) ==
  ResponseField(Porkbun_post("UrlForwardListResponse", response), "items")

Domain_delete_url_forward(response) == Porkbun_post("StatusResponse", response)

Domain_check(response) == Porkbun_post("DomainCheckResponse", response)

Domain_create_glue_record(response) == Porkbun_post("StatusResponse", response)

Domain_update_glue_record(response) == Porkbun_post("StatusResponse", response)

Domain_delete_glue_record(response) == Porkbun_post("StatusResponse", response)

Domain_get_glue_records(response) ==
  ResponseField(Porkbun_post("GlueRecordListResponse", response), "items")

Ssl_retrieve_bundle(response) == Porkbun_post("SslBundleResponse", response)

(***************************************************************************)
(* The list operations.  Each operator is one turn of the loop: the state  *)
(* of the loop (cursor, accumulated items) and the response to the request *)
(* of this turn give the next state of the loop, or the value returned.    *)
(*   pc   "send": the loop goes on with a request for the new cursor       *)
(*        "done": the function returns out                                 *)
(***************************************************************************)
Turn(pc, cursor, all, out) ==
  [pc |-> pc, cursor |-> cursor, all |-> all, out |-> out]

\* The loop with the test of next_page before the extend: the items of
\* the last page are lost.
list_turn_BreakBeforeExtend(T, page, all, response) ==
  LET r == NameDotCom_get(T, response)
  IN IF r.kind # "Ok"
       THEN Turn("done", page, all, r)
       ELSE IF r.value.nextPage.t = "null"
         THEN Turn("done", page, all, Ok(ItemsValue(all), r.reads))
         ELSE Turn("send", r.value.nextPage.n, all \o r.value.items.a,
                   [Pending EXCEPT !.reads = r.reads])

\* The loop that ends with what it has when a page request fails.
list_turn_PartialOnError(T, page, all, response) ==
  LET r == NameDotCom_get(T, response)
  IN IF r.kind # "Ok"
       THEN Turn("done", page, all, Ok(ItemsValue(all), r.reads))
       ELSE LET extended == all \o r.value.items.a
            IN IF r.value.nextPage.t = "null"
                 THEN Turn("done", page, extended,
                           Ok(ItemsValue(extended), r.reads))
                 ELSE Turn("send", r.value.nextPage.n, extended,
                           [Pending EXCEPT !.reads = r.reads])

\* The loop that counts the page up instead of taking next_page.
list_turn_CountsUp(T, page, all, response) ==
  LET r == NameDotCom_get(T, response)
  IN IF r.kind # "Ok"
       THEN Turn("done", page, all, r)
       ELSE LET extended == all \o r.value.items.a
            IN IF r.value.nextPage.t = "null"
                 THEN Turn("done", page, extended,
                           Ok(ItemsValue(extended), r.reads))
                 ELSE Turn("send", page + 1, extended,
                           [Pending EXCEPT !.reads = r.reads])

\* The loop of the four name.com list functions:
\*   let response: T = self.client.get(&path).await?;
\*   all.extend(response.items);
\*   if response.next_page.is_none() { break; }
\*   page = response.next_page.unwrap();
list_turn(T, page, all, response) ==
  LET r == NameDotCom_get(T, response)
  IN IF r.kind # "Ok"
       THEN Turn("done", page, all, r)
       ELSE LET extended == all \o r.value.items.a
            IN IF r.value.nextPage.t = "null"
                 THEN Turn("done", page, extended,
                           Ok(ItemsValue(extended), r.reads))
                 ELSE Turn("send", r.value.nextPage.n, extended,
                           [Pending EXCEPT !.reads = r.reads])

DomainsClient_list(page, all, response) ==
  list_turn("ListDomainsResponse", page, all, response)

DnsClient_list_records(page, all, response) ==
  list_turn("ListDnsRecordsResponse", page, all, response)

UrlForwardingClient_list(page, all, response) ==
  list_turn("ListUrlForwardingResponse", page, all, response)

VanityNameserverClient_list(page, all, response) ==
  list_turn("ListVanityNsResponse", page, all, response)

\* The loop of list_all with start advanced by one per batch.
Domain_list_all_AdvanceByOne(start, all_domains, response) ==
  LET r == Porkbun_post("DomainListResponse", response)
  IN IF r.kind # "Ok"
       THEN Turn("done", start, all_domains, r)
       ELSE IF r.value.items.a = <<>>
         THEN Turn("done", start, all_domains,
                   Ok(ItemsValue(all_domains), r.reads))
         ELSE Turn("send", start + 1, all_domains \o r.value.items.a,
                   [Pending EXCEPT !.reads = r.reads])

\* list_all that sets start to the size of the batch instead of adding it.
Domain_list_all_StartIsBatchLen(start, all_domains, response) ==
  LET r == Porkbun_post("DomainListResponse", response)
  IN IF r.kind # "Ok"
       THEN Turn("done", start, all_domains, r)
       ELSE IF r.value.items.a = <<>>
         THEN Turn("done", start, all_domains,
                   Ok(ItemsValue(all_domains), r.reads))
         ELSE Turn("send", Len(r.value.items.a),
                   all_domains \o r.value.items.a,
                   [Pending EXCEPT !.reads = r.reads])

\* The loop of porkbun's Domain::list_all:
\*   let response: DomainListResponse = self.client.post(..).await?;
\*   if response.domains.is_empty() { break; }
\*   start += response.domains.len() as u64;
\*   all_domains.extend(response.domains);
Domain_list_all(start, all_domains, response) ==
  LET r == Porkbun_post("DomainListResponse", response)
  IN IF r.kind # "Ok"
       THEN Turn("done", start, all_domains, r)
       ELSE IF r.value.items.a = <<>>
         THEN Turn("done", start, all_domains,
                   Ok(ItemsValue(all_domains), r.reads))
         ELSE Turn("send", start + Len(r.value.items.a),
                   all_domains \o r.value.items.a,
                   [Pending EXCEPT !.reads = r.reads])

(***************************************************************************)
(* The environment: the bodies and responses a server may send.            *)
(***************************************************************************)
Statuses == {200, 201, 202, 204, 300, 304, 404, 500}

Body_Empty == NotJson("")
Body_Html == NotJson("<html>502 Bad Gateway</html>")
Body_EmptyObject == Object("{}", EmptyObject)
Body_Message ==
  Object("{\"message\":\"Not Found\"}",
         With(EmptyObject, "message", JStr("Not Found")))
Body_MessageDetails ==
  Object("{\"message\":\"Not Found\",\"details\":\"no such record\"}",
         With(With(EmptyObject, "message", JStr("Not Found")),
              "details", JStr("no such record")))
Body_MessageDetailsNull ==
  Object("{\"message\":\"Not Found\",\"details\":null}",
         With(With(EmptyObject, "message", JStr("Not Found")),
              "details", JNull))
Body_MessageNumber ==
  Object("{\"message\":404}", With(EmptyObject, "message", JNum(404)))
Body_DetailsOnly ==
  Object("{\"details\":\"no such record\"}",
         With(EmptyObject, "details", JStr("no such record")))
Body_Hello ==
  Object("{\"serverName\":\"api\",\"serverTime\":\"now\",\"username\":\"u\"}",
         With(With(With(EmptyObject, "serverName", JStr("api")),
                   "serverTime", JStr("now")),
              "username", JStr("u")))
Body_HelloNoUser ==
  Object("{\"serverName\":\"api\",\"serverTime\":\"now\"}",
         With(With(EmptyObject, "serverName", JStr("api")),
              "serverTime", JStr("now")))
Body_Success ==
  Object("{\"status\":\"SUCCESS\"}",
         With(EmptyObject, "status", JStr("SUCCESS")))
Body_Ping ==
  Object("{\"status\":\"SUCCESS\",\"yourIp\":\"192.0.2.1\"}",
         With(With(EmptyObject, "status", JStr("SUCCESS")),
              "yourIp", JStr("192.0.2.1")))
Body_Pricing ==
  Object("{\"status\":\"SUCCESS\",\"pricing\":{}}",
         With(With(EmptyObject, "status", JStr("SUCCESS")), "pricing", JObj))
Body_PingMessageNumber ==
  Object("{\"status\":\"SUCCESS\",\"message\":42,\"yourIp\":\"192.0.2.1\"}",
         With(With(With(EmptyObject, "status", JStr("SUCCESS")),
                   "message", JNum(42)),
              "yourIp", JStr("192.0.2.1")))
Body_Created ==
  Object("{\"status\":\"SUCCESS\",\"id\":1}",
         With(With(EmptyObject, "status", JStr("SUCCESS")), "id", JNum(1)))
Body_Dnssec ==
  Object("{\"status\":\"SUCCESS\",\"records\":{}}",
         With(With(EmptyObject, "status", JStr("SUCCESS")), "records", JObj))
Body_Check ==
  Object("{\"status\":\"SUCCESS\",\"response\":{},\"limits\":{}}",
         With(With(With(EmptyObject, "status", JStr("SUCCESS")),
                   "response", JObj),
              "limits", JObj))
Body_Bundle ==
  Object("{\"status\":\"SUCCESS\",\"certificatechain\":\"c\","
           \o "\"privatekey\":\"k\",\"publickey\":\"p\"}",
         With(With(With(With(EmptyObject, "status", JStr("SUCCESS")),
                        "certificatechain", JStr("c")),
                   "privatekey", JStr("k")),
              "publickey", JStr("p")))
Body_IpOnly ==
  Object("{\"yourIp\":\"192.0.2.1\"}",
         With(EmptyObject, "yourIp", JStr("192.0.2.1")))
Body_StatusNumber ==
  Object("{\"status\":1,\"yourIp\":\"192.0.2.1\"}",
         With(With(EmptyObject, "status", JNum(1)),
              "yourIp", JStr("192.0.2.1")))
Body_Error ==
  Object("{\"status\":\"ERROR\"}", With(EmptyObject, "status", JStr("ERROR")))
Body_ErrorMessage ==
  Object("{\"status\":\"ERROR\",\"message\":\"Invalid API key.\"}",
         With(With(EmptyObject, "status", JStr("ERROR")),
              "message", JStr("Invalid API key.")))
Body_ErrorMessageNull ==
  Object("{\"status\":\"ERROR\",\"message\":null}",
         With(With(EmptyObject, "status", JStr("ERROR")), "message", JNull))
Body_ErrorMessageNumber ==
  Object("{\"status\":\"ERROR\",\"message\":42}",
         With(With(EmptyObject, "status", JStr("ERROR")),
              "message", JNum(42)))

\* The i-th item of the response to the request with the given cursor.
Item(cursor, i) == <<cursor, i>>
Items(cursor, n) == [i \in 1..n |-> Item(cursor, i)]

\* A page of a name.com list: n items and the nextPage field.
PageBody(cursor, n, next) ==
  Object("{\"items\":" \o ToString(<<cursor, n>>) \o ",\"nextPage\":"
           \o ToString(<<next.t, next.n>>) \o "}",
         With(With(EmptyObject, "items", JArr(Items(cursor, n))),
              "nextPage", next))

\* A batch of porkbun's domain list: n items.
BatchBody(cursor, n) ==
  Object("{\"status\":\"SUCCESS\",\"domains\":" \o ToString(<<cursor, n>>)
           \o "}",
         With(With(EmptyObject, "status", JStr("SUCCESS")),
              "items", JArr(Items(cursor, n))))

SampleBodies ==
  {Body_Empty, Body_Html, Body_EmptyObject, Body_Message, Body_MessageDetails,
   Body_MessageDetailsNull, Body_MessageNumber, Body_DetailsOnly, Body_Hello,
   Body_HelloNoUser, Body_Success, Body_Ping, Body_PingMessageNumber,
   Body_Pricing, Body_Created, Body_Dnssec, Body_Check, Body_Bundle,
   Body_IpOnly, Body_StatusNumber,
   Body_Error, Body_ErrorMessage, Body_ErrorMessageNull,
   Body_ErrorMessageNumber, PageBody(1, 1, JNull), BatchBody(0, 0),
   BatchBody(0, 1), BatchBody(0, 2)}

\* send() failed: there is no response.
NetworkFailure == Response(FALSE, 0, FALSE, Body_Empty)

\* What a server may answer to the request of a call that is no sweep.
Responses ==
  {NetworkFailure}
    \cup {Response(TRUE, st, FALSE, Body_Empty) : st \in Statuses}
    \cup {Response(TRUE, st, TRUE, b) : st \in Statuses, b \in SampleBodies}

\* The ways a page request of a name.com sweep fails.
PageFailures ==
  {NetworkFailure, Response(TRUE, 500, TRUE, Body_Message),
   Response(TRUE, 404, TRUE, Body_Html), Response(TRUE, 200, FALSE, Body_Empty),
   Response(TRUE, 200, TRUE, Body_Html)}

\* The ways a batch request of porkbun's list_all fails.
BatchFailures ==
  {NetworkFailure, Response(TRUE, 500, TRUE, Body_Html),
   Response(TRUE, 200, FALSE, Body_Empty), Response(TRUE, 200, TRUE, Body_Html),
   Response(TRUE, 200, TRUE, Body_ErrorMessage),
   Response(TRUE, 200, TRUE, Body_Success)}

\* The nextPage values a name.com server may send.
NextPages == {Absent, JNull} \cup {JNum(p) : p \in 1..MaxPage}

\* The cursors a sweep of the model can reach.
Cursors == 0..(MaxPage + MaxFetch * MaxItems)

\* What the server holds at a cursor: unknown until it is first served.
Unserved == [known |-> FALSE, n |-> 0, next |-> Absent]
Served(n, next) == [known |-> TRUE, n |-> n, next |-> next]

(***************************************************************************)
(* The state: one call on a client, from the call to its return.           *)
(***************************************************************************)
VARIABLES
  op,         \* the function called, "none" before the call
  ty,         \* the type T the call decodes its response as
  pc,         \* "idle", "send" (about to send a request), "inflight"
              \* (awaiting the response), "done" (returned)
  page,       \* the local `page` of a name.com list function
  start,      \* the local `start` of Domain::list_all
  all,        \* the local Vec the list function accumulates into
  result,     \* what the call returned
  server,     \* what the server has served at each cursor
  requests,   \* the requests sent, in order
  responses,  \* the responses received, in order
  bodyReads,  \* how often the call read a response body from the network
  history,    \* the earlier calls of the same function: what each was
              \* asked for and what it returned
  peer,       \* a second call running on the same client at the same
              \* time: its position, its locals and what it returned
  client,     \* the fields of the two client structs: host, username and
              \* token of NameDotCom, auth of Porkbun
  given,      \* the arguments the constructors were called with
  registry    \* the teardown registry of the test programs: the state
              \* behind the mutex, the channel, the worker thread, the
              \* threads that register jobs and global_teardown

vars ==
  <<op, ty, pc, page, start, all, result, server, requests, responses,
    bodyReads, history, peer, client, given, registry>>

\* The hosts of the name.com client and the base URL of the porkbun client.
PRODUCTION_HOST == "https://api.name.com"
DEVELOPMENT_HOST == "https://api.dev.name.com"
BASE_URL == "https://api.porkbun.com/api/json/v3"

\* NameDotCom::with_host, new and new_dev: the struct holds what it is given.
NameDotCom_with_host(host, username, token) ==
  [host |-> host, username |-> username, token |-> token]
NameDotCom_new(username, token) ==
  NameDotCom_with_host(PRODUCTION_HOST, username, token)
NameDotCom_new_dev(username, token) ==
  NameDotCom_with_host(DEVELOPMENT_HOST, username, token)

\* Porkbun::new: Auth { apikey, secretapikey }.
Porkbun_new(apikey, secretapikey) ==
  [auth |-> [secretapikey |-> secretapikey, apikey |-> apikey]]

\* The arguments a program constructs its clients with.
Constructions ==
  {[host |-> PRODUCTION_HOST, username |-> "alice", token |-> "token-a",
    apikey |-> "pk1_a", secretapikey |-> "sk1_a"],
   [host |-> DEVELOPMENT_HOST, username |-> "bob", token |-> "token-b",
    apikey |-> "pk1_b", secretapikey |-> "sk1_b"]}

\* The clients constructed from the arguments.
Construct(a) ==
  [name_com |-> IF a.host = PRODUCTION_HOST
                  THEN NameDotCom_new(a.username, a.token)
                  ELSE IF a.host = DEVELOPMENT_HOST
                    THEN NameDotCom_new_dev(a.username, a.token)
                    ELSE NameDotCom_with_host(a.host, a.username, a.token),
   porkbun |-> Porkbun_new(a.apikey, a.secretapikey)]

NameComBodyOps ==
  {"NameDotCom::hello", "NameDotCom::get", "NameDotCom::post",
   "NameDotCom::put", "NameDotCom::patch"}
NameComVoidOps == {"NameDotCom::delete"}
NameComListOps ==
  {"DomainsClient::list", "DnsClient::list_records",
   "UrlForwardingClient::list", "VanityNameserverClient::list"}
\* The porkbun functions that return what post or post_unauthenticated
\* returns.
PorkbunOps ==
  {"Porkbun::ping", "Porkbun::post", "Porkbun::get_pricing",
   "Dns::create_record", "Dns::edit_record_by_id", "Dns::delete_record_by_id",
   "Dns::create_dnssec_record", "Dns::delete_dnssec_record",
   "Domain::update_nameservers", "Domain::get_nameservers",
   "Domain::add_url_forward", "Domain::delete_url_forward", "Domain::check",
   "Domain::create_glue_record", "Domain::update_glue_record",
   "Domain::delete_glue_record", "Ssl::retrieve_bundle"}
\* The porkbun functions that return one field of the response.
PorkbunFieldOps ==
  {"Dns::retrieve_all_records", "Dns::retrieve_record_by_id",
   "Dns::retrieve_records_by_name_type", "Dns::get_dnssec_records",
   "Domain::get_url_forwarding", "Domain::get_glue_records"}
PorkbunListOps == {"Domain::list_all"}

\* The types T the calls of the model are made with.
TypesOf(o) ==
  CASE o = "NameDotCom::hello" -> {"Hello"}
    [] o \in {"NameDotCom::get", "NameDotCom::post", "NameDotCom::put",
              "NameDotCom::patch"} -> {"Hello", "ListUrlForwardingResponse"}
    [] o = "NameDotCom::delete" -> {"()"}
    [] o = "DomainsClient::list" -> {"ListDomainsResponse"}
    [] o = "DnsClient::list_records" -> {"ListDnsRecordsResponse"}
    [] o = "UrlForwardingClient::list" -> {"ListUrlForwardingResponse"}
    [] o = "VanityNameserverClient::list" -> {"ListVanityNsResponse"}
    [] o = "Porkbun::ping" -> {"PingResponse"}
    [] o = "Porkbun::post" -> {"StatusResponse", "PingResponse"}
    [] o = "Porkbun::get_pricing" -> {"PricingResponse"}
    [] o \in {"Dns::edit_record_by_id", "Dns::delete_record_by_id",
              "Dns::create_dnssec_record", "Dns::delete_dnssec_record",
              "Domain::update_nameservers", "Domain::add_url_forward",
              "Domain::delete_url_forward", "Domain::create_glue_record",
              "Domain::update_glue_record", "Domain::delete_glue_record"} ->
         {"StatusResponse"}
    [] o = "Dns::create_record" -> {"DnsRecordCreateResponse"}
    [] o \in {"Dns::retrieve_all_records", "Dns::retrieve_record_by_id",
              "Dns::retrieve_records_by_name_type"} ->
         {"DnsRecordListResponse"}
    [] o = "Dns::get_dnssec_records" -> {"DnssecRecordListResponse"}
    [] o = "Domain::get_nameservers" -> {"NameserverListResponse"}
    [] o = "Domain::get_url_forwarding" -> {"UrlForwardListResponse"}
    [] o = "Domain::check" -> {"DomainCheckResponse"}
    [] o = "Domain::get_glue_records" -> {"GlueRecordListResponse"}
    [] o = "Ssl::retrieve_bundle" -> {"SslBundleResponse"}
    [] o = "Domain::list_all" -> {"DomainListResponse"}

PorkbunAllOps == PorkbunOps \cup PorkbunFieldOps \cup PorkbunListOps

Ops ==
  NameComBodyOps \cup NameComVoidOps \cup NameComListOps \cup PorkbunOps
    \cup PorkbunFieldOps \cup PorkbunListOps

\* The HTTP method of the request a function builds.
MethodOf(o) ==
  CASE o \in {"NameDotCom::hello", "NameDotCom::get"} \cup NameComListOps ->
         "GET"
    [] o = "NameDotCom::put" -> "PUT"
    [] o = "NameDotCom::patch" -> "PATCH"
    [] o = "NameDotCom::delete" -> "DELETE"
    [] OTHER -> "POST"

\* The client structs (self in the functions of the clients).
NameDotCom == client.name_com
Porkbun == client.porkbun

\* The Authorization of a request: none, or Basic with a user and password.
NoAuth == [scheme |-> "none", username |-> "", password |-> ""]
BasicAuth(username, password) ==
  [scheme |-> "Basic", username |-> username, password |-> password]

\* The body a caller hands to post, put or patch of the name.com client.
Payload == {"host", "type", "answer", "ttl"}

\* The request structs of the porkbun sub-clients, as the sets of fields
\* they serialize to (of a caller that sets every optional field); Auth is
\* flattened into each.
Auth == {"secretapikey", "apikey"}
DnsRecordCreateRequest == Auth \cup {"name", "type", "content", "ttl", "prio"}
DnsRecordEditRequest == Auth \cup {"name", "type", "content", "ttl", "prio"}
DnssecCreateRequest == Auth \cup {"keyTag", "alg", "digestType", "digest"}
NameserverUpdateRequest == Auth \cup {"ns"}
DomainListRequest == Auth \cup {"start", "includeLabels"}
UrlForwardCreateRequest ==
  Auth \cup {"subdomain", "location", "type", "includePath", "wildcard"}
GlueRecordRequest == Auth \cup {"ips"}

\* The body each porkbun function hands to post.
BodyOf(o) ==
  CASE o = "Dns::create_record" -> DnsRecordCreateRequest
    [] o = "Dns::edit_record_by_id" -> DnsRecordEditRequest
    [] o = "Dns::create_dnssec_record" -> DnssecCreateRequest
    [] o = "Domain::update_nameservers" -> NameserverUpdateRequest
    [] o = "Domain::list_all" -> DomainListRequest
    [] o = "Domain::add_url_forward" -> UrlForwardCreateRequest
    [] o \in {"Domain::create_glue_record", "Domain::update_glue_record"} ->
         GlueRecordRequest
    [] OTHER -> Auth

\* The request with the credentials in the body instead of the header.
NameDotCom_request_AuthInBody(method, body) ==
  [method |-> method, host |-> NameDotCom.host, basic_auth |-> NoAuth,
   body |-> body \cup {"username", "token"}, auth |-> <<>>]

\* The request the name.com client builds: the method, basic_auth with the
\* client's username and token, and json(&body) where there is a body.
NameDotCom_request(method, body) ==
  [method |-> method, host |-> NameDotCom.host,
   basic_auth |-> BasicAuth(NameDotCom.username, NameDotCom.token),
   body |-> body, auth |-> <<>>]

\* The request of a post that leaves the body out.
Porkbun_post_request_NoBody(body) ==
  [method |-> "POST", host |-> BASE_URL, basic_auth |-> NoAuth, body |-> {},
   auth |-> <<>>]

\* The request post of the porkbun client builds: post(&url).json(body);
\* auth holds the values the fields of Auth have in the body.
Porkbun_post_request(body) ==
  [method |-> "POST", host |-> BASE_URL, basic_auth |-> NoAuth, body |-> body,
   auth |-> [f \in body \cap Auth |-> Porkbun.auth[f]]]

\* The request post_unauthenticated builds: post(&url).json(&json!({})).
Porkbun_post_unauthenticated_request ==
  [method |-> "POST", host |-> BASE_URL, basic_auth |-> NoAuth, body |-> {},
   auth |-> <<>>]

\* The request the call sends next, with the cursor it carries (the page
\* of a name.com list, the start of list_all).
Request ==
  LET r == CASE op \in {"NameDotCom::post", "NameDotCom::put",
                        "NameDotCom::patch"} ->
                   NameDotCom_request(MethodOf(op), Payload)
             [] op \in NameComBodyOps \cup NameComVoidOps \cup NameComListOps ->
                   NameDotCom_request(MethodOf(op), {})
             [] op = "Porkbun::get_pricing" ->
                   Porkbun_post_unauthenticated_request
             [] OTHER -> Porkbun_post_request(BodyOf(op))
  IN [method |-> r.method,
      host |-> r.host,
      cursor |-> IF op \in NameComListOps THEN page
                 ELSE IF op \in PorkbunListOps THEN start
                 ELSE 0,
      basic_auth |-> r.basic_auth,
      body |-> r.body,
      auth |-> r.auth]

\* The call's result as the caller sees it.
Outcome(out) == [kind |-> out.kind, message |-> out.message, value |-> out.value]

\* The second call before it is made.
PeerIdle ==
  [pc |-> "idle", page |-> 1, all |-> <<>>, sent |-> <<>>, got |-> <<>>,
   result |-> Outcome(Pending)]

\* The test threads that drop guards.
Threads == {"test-1", "test-2"}

\* The registry once the Lazy is initialized: the sender and the worker's
\* handle in the state behind the mutex, an empty channel, the worker
\* started and receiving.
REGISTRY ==
  [sender |-> TRUE,
   worker_handle |-> TRUE,
   mutex |-> "free",
   channel |-> <<>>,
   worker |-> "recv",
   tasks |-> <<>>,
   awaited |-> 0,
   finished |-> {},
   dropped |-> {},
   jobs |-> 0,
   thread |-> [t \in Threads |-> [pc |-> "idle", job |-> 0]],
   global_teardown |-> "idle"]

Init ==
  /\ op = "none"
  /\ ty = "none"
  /\ pc = "idle"
  /\ page = 1
  /\ start = 0
  /\ all = <<>>
  /\ result = Outcome(Pending)
  /\ server = [c \in Cursors |-> Unserved]
  /\ requests = <<>>
  /\ responses = <<>>
  /\ bodyReads = 0
  /\ history = <<>>
  /\ peer = PeerIdle
  /\ given \in Constructions
  /\ client = Construct(given)
  /\ registry = REGISTRY

\* A function of a client is called: a list function starts with page = 1
\* (start = 0) and an empty Vec.
Call ==
  /\ pc = "idle"
  /\ \E o \in Ops : \E T \in TypesOf(o) : op' = o /\ ty' = T
  /\ pc' = "send"
  /\ page' = 1
  /\ start' = 0
  /\ all' = <<>>
  /\ UNCHANGED <<result, server, requests, responses, bodyReads, history, peer, client, given, registry>>

\* A call that sends its next request without awaiting the response to
\* the one before.
Send_Pipelined ==
  /\ pc \in {"send", "inflight"}
  /\ Len(requests) < MaxFetch
  /\ requests' = Append(requests, Request)
  /\ pc' = "inflight"
  /\ UNCHANGED <<op, ty, page, start, all, result, server, responses, bodyReads,
                 history, peer, client, given, registry>>

\* The call sends its next request and awaits the response.
Send ==
  /\ pc = "send"
  /\ Len(requests) < MaxFetch
  /\ requests' = Append(requests, Request)
  /\ pc' = "inflight"
  /\ UNCHANGED <<op, ty, page, start, all, result, server, responses, bodyReads,
                 history, peer, client, given, registry>>

\* A return that forgets the client's token after a failed call.
Return_ForgetsToken(response, out) ==
  /\ result' = Outcome(out)
  /\ bodyReads' = bodyReads + out.reads
  /\ responses' = Append(responses, response)
  /\ pc' = "done"
  /\ client' = IF out.kind = "Ok" THEN client
               ELSE [client EXCEPT !.name_com.token = ""]
  /\ UNCHANGED <<op, ty, page, start, all, server, requests, history, peer,
                 given, registry>>

\* A call that is no sweep returns what its helper makes of the response.
Return(response, out) ==
  /\ result' = Outcome(out)
  /\ bodyReads' = bodyReads + out.reads
  /\ responses' = Append(responses, response)
  /\ pc' = "done"
  /\ UNCHANGED <<op, ty, page, start, all, server, requests, history, peer, client, given, registry>>

\* hello, get, post, put, patch of the name.com client.
NameDotCom_Receive ==
  /\ pc = "inflight"
  /\ op \in NameComBodyOps
  /\ \E response \in Responses :
       Return(response,
              CASE op = "NameDotCom::hello" -> NameDotCom_hello(response)
                [] op = "NameDotCom::get" -> NameDotCom_get(ty, response)
                [] op = "NameDotCom::post" -> NameDotCom_post(ty, response)
                [] op = "NameDotCom::put" -> NameDotCom_put(ty, response)
                [] op = "NameDotCom::patch" -> NameDotCom_patch(ty, response))

\* delete of the name.com client.
NameDotCom_ReceiveEmpty ==
  /\ pc = "inflight"
  /\ op \in NameComVoidOps
  /\ \E response \in Responses : Return(response, NameDotCom_delete(response))

\* ping and the other calls through post, and get_pricing through
\* post_unauthenticated, of the porkbun client.
Porkbun_Receive ==
  /\ pc = "inflight"
  /\ op \in PorkbunOps
  /\ \E response \in Responses :
       Return(response,
              CASE op = "Porkbun::ping" -> Porkbun_ping(response)
                [] op = "Porkbun::post" -> Porkbun_post(ty, response)
                [] op = "Porkbun::get_pricing" -> Porkbun_get_pricing(response)
                [] op = "Dns::create_record" -> Dns_create_record(response)
                [] op = "Dns::edit_record_by_id" ->
                     Dns_edit_record_by_id(response)
                [] op = "Dns::delete_record_by_id" ->
                     Dns_delete_record_by_id(response)
                [] op = "Dns::create_dnssec_record" ->
                     Dns_create_dnssec_record(response)
                [] op = "Dns::delete_dnssec_record" ->
                     Dns_delete_dnssec_record(response)
                [] op = "Domain::update_nameservers" ->
                     Domain_update_nameservers(response)
                [] op = "Domain::get_nameservers" ->
                     Domain_get_nameservers(response)
                [] op = "Domain::add_url_forward" ->
                     Domain_add_url_forward(response)
                [] op = "Domain::delete_url_forward" ->
                     Domain_delete_url_forward(response)
                [] op = "Domain::check" -> Domain_check(response)
                [] op = "Domain::create_glue_record" ->
                     Domain_create_glue_record(response)
                [] op = "Domain::update_glue_record" ->
                     Domain_update_glue_record(response)
                [] op = "Domain::delete_glue_record" ->
                     Domain_delete_glue_record(response)
                [] op = "Ssl::retrieve_bundle" -> Ssl_retrieve_bundle(response))

\* The functions of the porkbun sub-clients that return one field of the
\* response.
PorkbunField_Receive ==
  /\ pc = "inflight"
  /\ op \in PorkbunFieldOps
  /\ \E response \in Responses :
       Return(response,
              CASE op = "Dns::retrieve_all_records" ->
                     Dns_retrieve_all_records(response)
                [] op = "Dns::retrieve_record_by_id" ->
                     Dns_retrieve_record_by_id(response)
                [] op = "Dns::retrieve_records_by_name_type" ->
                     Dns_retrieve_records_by_name_type(response)
                [] op = "Dns::get_dnssec_records" ->
                     Dns_get_dnssec_records(response)
                [] op = "Domain::get_url_forwarding" ->
                     Domain_get_url_forwarding(response)
                [] op = "Domain::get_glue_records" ->
                     Domain_get_glue_records(response))

\* One turn of a sweep: the loop goes on, or the function returns.
Step(response, turn) ==
  /\ pc' = turn.pc
  /\ all' = turn.all
  /\ result' = IF turn.pc = "done" THEN Outcome(turn.out) ELSE result
  /\ bodyReads' = bodyReads + turn.out.reads
  /\ responses' = Append(responses, response)
  /\ UNCHANGED <<op, ty, requests, history, peer, client, given, registry>>

ListTurn(response) ==
  CASE op = "DomainsClient::list" -> DomainsClient_list(page, all, response)
    [] op = "DnsClient::list_records" ->
         DnsClient_list_records(page, all, response)
    [] op = "UrlForwardingClient::list" ->
         UrlForwardingClient_list(page, all, response)
    [] op = "VanityNameserverClient::list" ->
         VanityNameserverClient_list(page, all, response)

\* The response to a page request of a name.com list function: a failure,
\* or the page the server holds at that number (the same page whenever the
\* number is asked again).
List_Receive ==
  /\ pc = "inflight"
  /\ op \in NameComListOps
  /\ \/ \E response \in PageFailures :
          /\ Step(response, ListTurn(response))
          /\ page' = ListTurn(response).cursor
          /\ UNCHANGED <<start, server>>
     \/ \E n \in 0..MaxItems, next \in NextPages :
          LET response == Response(TRUE, 200, TRUE, PageBody(page, n, next))
          IN /\ server[page].known => server[page] = Served(n, next)
             /\ server' = [server EXCEPT ![page] = Served(n, next)]
             /\ Step(response, ListTurn(response))
             /\ page' = ListTurn(response).cursor
             /\ UNCHANGED start

\* The response to a batch request of Domain::list_all: a failure, or the
\* batch the server holds at that offset.
ListAll_Receive ==
  /\ pc = "inflight"
  /\ op \in PorkbunListOps
  /\ \/ \E response \in BatchFailures :
          /\ Step(response, Domain_list_all(start, all, response))
          /\ start' = Domain_list_all(start, all, response).cursor
          /\ UNCHANGED <<page, server>>
     \/ \E n \in 0..MaxItems :
          LET response == Response(TRUE, 200, TRUE, BatchBody(start, n))
          IN /\ server[start].known => server[start] = Served(n, Absent)
             /\ server' = [server EXCEPT ![start] = Served(n, Absent)]
             /\ Step(response, Domain_list_all(start, all, response))
             /\ start' = Domain_list_all(start, all, response).cursor
             /\ UNCHANGED page

Next ==
  \/ Call
  \/ Send
  \/ NameDotCom_Receive
  \/ NameDotCom_ReceiveEmpty
  \/ Porkbun_Receive
  \/ PorkbunField_Receive
  \/ List_Receive
  \/ ListAll_Receive

Spec == Init /\ [][Next]_vars

(***************************************************************************)
(* The same list function called again on the same client, against the     *)
(* same server, after a call that returned Ok.                             *)
(***************************************************************************)
\* What is kept of a call that has returned.
Past == [cursors |-> [i \in 1..Len(requests) |-> requests[i].cursor],
         result |-> result]

\* The second call that finds the Vec of the first call still filled.
Again_KeepsItems ==
  /\ pc = "done"
  /\ op \in NameComListOps \cup PorkbunListOps
  /\ result.kind = "Ok"
  /\ Len(history) < MaxCalls - 1
  /\ history' = Append(history, Past)
  /\ pc' = "send"
  /\ page' = 1
  /\ start' = 0
  /\ all' = all
  /\ result' = Outcome(Pending)
  /\ requests' = <<>>
  /\ responses' = <<>>
  /\ bodyReads' = 0
  /\ UNCHANGED <<op, ty, server, peer, client, given, registry>>

\* The function is called again: its locals start afresh (page = 1 or
\* start = 0, and an empty Vec); the client holds nothing of the call
\* before, and the server holds the same pages.
Again ==
  /\ pc = "done"
  /\ op \in NameComListOps \cup PorkbunListOps
  /\ result.kind = "Ok"
  /\ Len(history) < MaxCalls - 1
  /\ history' = Append(history, Past)
  /\ pc' = "send"
  /\ page' = 1
  /\ start' = 0
  /\ all' = <<>>
  /\ result' = Outcome(Pending)
  /\ requests' = <<>>
  /\ responses' = <<>>
  /\ bodyReads' = 0
  /\ UNCHANGED <<op, ty, server, peer, client, given, registry>>

NextRepeat ==
  \/ Call
  \/ Send
  \/ NameDotCom_Receive
  \/ NameDotCom_ReceiveEmpty
  \/ Porkbun_Receive
  \/ PorkbunField_Receive
  \/ List_Receive
  \/ ListAll_Receive
  \/ Again

SpecRepeat == Init /\ [][NextRepeat]_vars

(***************************************************************************)
(* Two calls at the same time on one client (or on clones of it).  The     *)
(* second call is a DnsClient::list_records on another domain; the items   *)
(* of its pages carry the negated page number, so that they are told from  *)
(* the items of the first call.  The functions take &self and keep their   *)
(* state in locals: the two calls share the client's fields, which they    *)
(* only read.                                                              *)
(***************************************************************************)
main == <<op, ty, pc, page, start, all, result, server, requests, responses,
          bodyReads, history, client, given>>

\* What the other domain's server may answer to the page request.
PeerResponses(p) ==
  {NetworkFailure, Response(TRUE, 404, TRUE, Body_Message)}
    \cup {Response(TRUE, 200, TRUE, PageBody(0 - p, 1, next)) :
            next \in {JNull, JNum(p + 1)}}

Peer_Call ==
  /\ peer.pc = "idle"
  /\ peer' = [peer EXCEPT !.pc = "send", !.page = 1, !.all = <<>>]
  /\ UNCHANGED <<main, registry>>

Peer_Send ==
  /\ peer.pc = "send"
  /\ Len(peer.sent) < MaxPeerFetch
  /\ peer' = [peer EXCEPT !.pc = "inflight", !.sent = Append(@, peer.page)]
  /\ UNCHANGED <<main, registry>>

\* The second call with its Vec shared with the first call: the items of
\* its pages go to the Vec of the first call as well.
Peer_Receive_SharedVec ==
  /\ peer.pc = "inflight"
  /\ \E response \in PeerResponses(peer.page) :
       LET turn == DnsClient_list_records(peer.page, peer.all, response)
       IN /\ peer' = [pc |-> turn.pc, page |-> turn.cursor, all |-> turn.all,
                      sent |-> peer.sent, got |-> Append(peer.got, response),
                      result |-> IF turn.pc = "done" THEN Outcome(turn.out)
                                 ELSE peer.result]
          /\ all' = all \o SubSeq(turn.all, Len(peer.all) + 1, Len(turn.all))
  /\ UNCHANGED <<op, ty, pc, page, start, result, server, requests, responses,
                 bodyReads, history, client, given, registry>>

\* One turn of the second call's loop, on its own locals.
Peer_Receive ==
  /\ peer.pc = "inflight"
  /\ \E response \in PeerResponses(peer.page) :
       LET turn == DnsClient_list_records(peer.page, peer.all, response)
       IN peer' = [pc |-> turn.pc, page |-> turn.cursor, all |-> turn.all,
                   sent |-> peer.sent, got |-> Append(peer.got, response),
                   result |-> IF turn.pc = "done" THEN Outcome(turn.out)
                              ELSE peer.result]
  /\ UNCHANGED <<main, registry>>

\* The second call is cancelled while its request is in flight.
Peer_Cancel ==
  /\ peer.pc = "inflight"
  /\ peer' = [peer EXCEPT !.pc = "cancelled"]
  /\ UNCHANGED <<main, registry>>

NextShared ==
  \/ Call
  \/ Send
  \/ NameDotCom_Receive
  \/ NameDotCom_ReceiveEmpty
  \/ Porkbun_Receive
  \/ PorkbunField_Receive
  \/ List_Receive
  \/ ListAll_Receive
  \/ Peer_Call
  \/ Peer_Send
  \/ Peer_Receive
  \/ Peer_Cancel

SpecShared == Init /\ [][NextShared]_vars

(***************************************************************************)
(* Cancellation.  A call is a future: the caller cancels it by dropping it *)
(* while it awaits a response.  None of the functions handles that: the    *)
(* locals are dropped with the future and nothing is returned.             *)
(***************************************************************************)
\* A cancellation that hands the caller what the sweep has so far.
Cancel_ReturnsPartial ==
  /\ pc = "inflight"
  /\ pc' = "done"
  /\ result' = Outcome(Ok(ItemsValue(all), 0))
  /\ UNCHANGED <<op, ty, page, start, all, server, requests, responses,
                 bodyReads, history, peer, client, given, registry>>

\* The future is dropped at the await of a response.
Cancel ==
  /\ pc = "inflight"
  /\ pc' = "cancelled"
  /\ UNCHANGED <<op, ty, page, start, all, result, server, requests, responses,
                 bodyReads, history, peer, client, given, registry>>

NextCancel ==
  \/ Call
  \/ Send
  \/ NameDotCom_Receive
  \/ NameDotCom_ReceiveEmpty
  \/ Porkbun_Receive
  \/ PorkbunField_Receive
  \/ List_Receive
  \/ ListAll_Receive
  \/ Cancel

SpecCancel == Init /\ [][NextCancel]_vars

(***************************************************************************)
(* A sequence of calls on the same clients: after a call has returned, Ok  *)
(* or Err, the program calls any function of the clients or of their       *)
(* sub-clients.  The functions take &self and the sub-clients hold a       *)
(* shared reference to the client, so that no call writes a field of it.   *)
(***************************************************************************)
\* The next call of the sequence; of the call before, the history keeps
\* whether it returned Ok or which variant of Error.
Then ==
  /\ pc = "done"
  /\ Len(history) < MaxCalls - 1
  /\ history' = Append(history, result.kind)
  /\ \E o \in Ops : \E T \in TypesOf(o) : op' = o /\ ty' = T
  /\ pc' = "send"
  /\ page' = 1
  /\ start' = 0
  /\ all' = <<>>
  /\ result' = Outcome(Pending)
  /\ server' = [c \in Cursors |-> Unserved]
  /\ requests' = <<>>
  /\ responses' = <<>>
  /\ bodyReads' = 0
  /\ UNCHANGED <<peer, client, given, registry>>

NextSequence ==
  \/ Call
  \/ Send
  \/ NameDotCom_Receive
  \/ NameDotCom_ReceiveEmpty
  \/ Porkbun_Receive
  \/ PorkbunField_Receive
  \/ List_Receive
  \/ ListAll_Receive
  \/ Then

SpecSequence == Init /\ [][NextSequence]_vars

(***************************************************************************)
(* The teardown registry of the test programs (tests/common/mod.rs).  A    *)
(* guard that is dropped registers its cleanup job; a worker thread        *)
(* receives the jobs from a bounded channel and spawns them on its own     *)
(* runtime; global_teardown closes the channel and joins the worker.       *)
(***************************************************************************)
\* The jobs in the channel, and those the worker has spawned.
Queued == {registry.channel[i] : i \in 1..Len(registry.channel)}
Spawned == {registry.tasks[i] : i \in 1..Len(registry.tasks)}

\* Drop for a guard: the cleanup future is built and register_teardown is
\* called with it; the thread is now at REGISTRY.lock().
Register_Call(t) ==
  /\ registry.thread[t].pc = "idle"
  /\ registry.jobs < MaxJobs
  /\ registry' = [registry EXCEPT
                    !.jobs = @ + 1,
                    !.thread[t] = [pc |-> "lock", job |-> registry.jobs + 1]]
  /\ UNCHANGED <<main, peer>>

\* register_teardown: REGISTRY.lock() returns when the mutex is free.
Register_Lock(t) ==
  /\ registry.thread[t].pc = "lock"
  /\ registry.mutex = "free"
  /\ registry' = [registry EXCEPT !.mutex = t, !.thread[t].pc = "locked"]
  /\ UNCHANGED <<main, peer>>

\* register_teardown that waits for room in the channel (send, not
\* try_send) while it holds the mutex.
Register_TrySend_Waits(t) ==
  /\ registry.thread[t].pc = "locked"
  /\ ~registry.sender \/ Len(registry.channel) < ChannelCapacity
  /\ LET job == registry.thread[t].job
     IN registry' =
          [registry EXCEPT
             !.channel = IF registry.sender THEN Append(@, job) ELSE @,
             !.dropped = IF registry.sender THEN @ ELSE @ \cup {job},
             !.mutex = "free",
             !.thread[t] = [pc |-> "idle", job |-> 0]]
  /\ UNCHANGED <<main, peer>>

\* register_teardown with the mutex held: with a sender in the state,
\* try_send enqueues the job when the channel has room and gives it back in
\* the error, which is dropped, when it is full; without a sender the job
\* is dropped.  The guard of the mutex is dropped at the end.
Register_TrySend(t) ==
  /\ registry.thread[t].pc = "locked"
  /\ LET job == registry.thread[t].job
         sent == registry.sender /\ Len(registry.channel) < ChannelCapacity
     IN registry' =
          [registry EXCEPT
             !.channel = IF sent THEN Append(@, job) ELSE @,
             !.dropped = IF sent THEN @ ELSE @ \cup {job},
             !.mutex = "free",
             !.thread[t] = [pc |-> "idle", job |-> 0]]
  /\ UNCHANGED <<main, peer>>

\* The worker's loop: receiver.recv() returns a job, which is spawned and
\* its handle pushed.
Worker_Recv ==
  /\ registry.worker = "recv"
  /\ registry.channel # <<>>
  /\ registry' = [registry EXCEPT
                    !.tasks = Append(@, Head(registry.channel)),
                    !.channel = Tail(@)]
  /\ UNCHANGED <<main, peer>>

\* A worker for which the channel closes only once the mutex is free.
Worker_Closed_NeedsMutex ==
  /\ registry.worker = "recv"
  /\ registry.channel = <<>>
  /\ ~registry.sender
  /\ registry.mutex = "free"
  /\ registry' = [registry EXCEPT !.worker = "await", !.awaited = 0]
  /\ UNCHANGED <<main, peer>>

\* receiver.recv() returns None: the channel is empty and its only sender
\* is dropped; the worker goes on to await the tasks.
Worker_Closed ==
  /\ registry.worker = "recv"
  /\ registry.channel = <<>>
  /\ ~registry.sender
  /\ registry' = [registry EXCEPT !.worker = "await", !.awaited = 0]
  /\ UNCHANGED <<main, peer>>

\* for task in tasks { task.await }: the next handle, once its task has
\* finished.
Worker_Await ==
  /\ registry.worker = "await"
  /\ registry.awaited < Len(registry.tasks)
  /\ registry.tasks[registry.awaited + 1] \in registry.finished
  /\ registry' = [registry EXCEPT !.awaited = @ + 1]
  /\ UNCHANGED <<main, peer>>

\* A worker that leaves without awaiting the tasks it has spawned.
Worker_Exit_WithoutAwait ==
  /\ registry.worker = "await"
  /\ registry' = [registry EXCEPT !.worker = "exited"]
  /\ UNCHANGED <<main, peer>>

\* Every handle is awaited: block_on returns and the thread ends.
Worker_Exit ==
  /\ registry.worker = "await"
  /\ registry.awaited = Len(registry.tasks)
  /\ registry' = [registry EXCEPT !.worker = "exited"]
  /\ UNCHANGED <<main, peer>>

\* A spawned cleanup job runs to its end on the worker's runtime.
Job_Run(j) ==
  /\ j \in Spawned \ registry.finished
  /\ registry.worker # "exited"
  /\ registry' = [registry EXCEPT !.finished = @ \cup {j}]
  /\ UNCHANGED <<main, peer>>

\* global_teardown: REGISTRY.lock().
Teardown_Lock ==
  /\ registry.global_teardown = "idle"
  /\ registry.mutex = "free"
  /\ registry' = [registry EXCEPT !.mutex = "global_teardown",
                                  !.global_teardown = "locked"]
  /\ UNCHANGED <<main, peer>>

\* global_teardown: the sender is taken and dropped, the handle is taken.
Teardown_DropSender ==
  /\ registry.global_teardown = "locked"
  /\ registry' = [registry EXCEPT !.sender = FALSE,
                                  !.worker_handle = FALSE,
                                  !.global_teardown = "join"]
  /\ UNCHANGED <<main, peer>>

\* global_teardown: handle.join() returns when the worker has ended; the
\* function returns and the guard of the mutex is dropped.
Teardown_Join ==
  /\ registry.global_teardown = "join"
  /\ registry.worker = "exited"
  /\ registry' = [registry EXCEPT !.mutex = "free",
                                  !.global_teardown = "returned"]
  /\ UNCHANGED <<main, peer>>

NextRegistry ==
  \/ \E t \in Threads : Register_Call(t)
  \/ \E t \in Threads : Register_Lock(t)
  \/ \E t \in Threads : Register_TrySend(t)
  \/ Worker_Recv
  \/ Worker_Closed
  \/ Worker_Await
  \/ Worker_Exit
  \/ \E j \in 1..MaxJobs : Job_Run(j)
  \/ Teardown_Lock
  \/ Teardown_DropSender
  \/ Teardown_Join

SpecRegistry == Init /\ [][NextRegistry]_vars

\* The worker thread and the tasks of its runtime are scheduled, every
\* cleanup job comes to its end, and a join whose thread has ended returns.
SpecRegistryFair ==
  /\ SpecRegistry
  /\ WF_vars(Worker_Recv)
  /\ WF_vars(Worker_Closed)
  /\ WF_vars(Worker_Await)
  /\ WF_vars(Worker_Exit)
  /\ \A j \in 1..MaxJobs : WF_vars(Job_Run(j))
  /\ WF_vars(Teardown_Join)

(***************************************************************************)
(* Properties.                                                             *)
(***************************************************************************)
Done == pc = "done"
LastResponse == responses[Len(responses)]
\* The cursors of the requests sent so far, in order.
CursorsSent == [i \in 1..Len(requests) |-> requests[i].cursor]
\* The items the call returned.
Returned == result.value.items.a

\* The pages of the server from page c on, following nextPage until a page
\* has none (at most fuel pages).
RECURSIVE ChainFrom(_, _)
ChainFrom(c, fuel) ==
  IF fuel = 0 \/ ~server[c].known THEN <<>>
  ELSE <<c>> \o (IF server[c].next.t = "number"
                   THEN ChainFrom(server[c].next.n, fuel - 1)
                   ELSE <<>>)

\* The items the server holds at the given cursors, in that order.
RECURSIVE ItemsAt(_)
ItemsAt(cs) ==
  IF cs = <<>> THEN <<>>
  ELSE Items(Head(cs), server[Head(cs)].n) \o ItemsAt(Tail(cs))

\* C1: a name.com list function asks for page 1 first; when it returns Ok,
\* the pages it asked for are exactly the server's chain of pages from page
\* 1 along nextPage to the page without one, one request per page, and the
\* list returned is the concatenation of the items of those pages in that
\* order.
C1_NextPageAggregation ==
  op \in NameComListOps =>
    /\ requests # <<>> => requests[1].cursor = 1
    /\ (Done /\ result.kind = "Ok") =>
         /\ CursorsSent = ChainFrom(1, MaxFetch)
         /\ server[CursorsSent[Len(CursorsSent)]].next.t # "number"
         /\ Returned = ItemsAt(ChainFrom(1, MaxFetch))

\* Page 1 holds two items and names page 2, page 2 holds one item and no
\* next page: three items in two requests.
C1_Witness ==
  /\ op = "DnsClient::list_records"
  /\ Done
  /\ result.kind = "Ok"
  /\ CursorsSent = <<1, 2>>
  /\ Returned = Items(1, 2) \o Items(2, 1)

\* C2: Domain::list_all asks with start 0 first and then with the start
\* advanced by the size of the batch just received; it returns Ok at the
\* first empty batch, with the concatenation of the batches before it.
C2_OffsetAggregation ==
  op \in PorkbunListOps =>
    /\ requests # <<>> => requests[1].cursor = 0
    /\ \A i \in 1..(Len(requests) - 1) :
         requests[i + 1].cursor = requests[i].cursor + server[requests[i].cursor].n
    /\ (Done /\ result.kind = "Ok") =>
         /\ server[requests[Len(requests)].cursor] = Served(0, Absent)
         /\ \A i \in 1..(Len(requests) - 1) : server[requests[i].cursor].n > 0
         /\ Returned = ItemsAt(CursorsSent)
         /\ Len(Returned) = requests[Len(requests)].cursor

\* Batches of sizes MaxItems, MaxItems, 0: twice MaxItems items after three
\* requests with the offsets 0, MaxItems, 2 * MaxItems.
C2_Witness ==
  /\ op = "Domain::list_all"
  /\ Done
  /\ result.kind = "Ok"
  /\ CursorsSent = <<0, MaxItems, 2 * MaxItems>>
  /\ Len(Returned) = 2 * MaxItems

\* What the sweep's helper makes of the i-th response.
HelperOutcome(i) ==
  IF op \in NameComListOps THEN NameDotCom_get(ty, responses[i])
  ELSE Porkbun_post(ty, responses[i])

\* C3: in a sweep of either kind, a failed request is the last one: the
\* sweep returns that request's error, with no item in it, and sends no
\* request after it; and a sweep that returns Ok has had no failed request.
C3_SweepFailure ==
  (op \in NameComListOps \cup PorkbunListOps) =>
    /\ \A i \in 1..Len(responses) :
         HelperOutcome(i).kind # "Ok" =>
           /\ i = Len(responses)
           /\ Done
           /\ Len(requests) = i
           /\ result = Outcome(HelperOutcome(i))
           /\ result.kind \in {"Http", "Json", "Api"}
           /\ Returned = <<>>
    /\ (Done /\ result.kind = "Ok") =>
         \A i \in 1..Len(responses) : HelperOutcome(i).kind = "Ok"

\* The second request of a list_all fails after a first batch with items.
C3_Witness ==
  /\ op = "Domain::list_all"
  /\ Done
  /\ Len(requests) = 2
  /\ all # <<>>
  /\ result.kind = "Http"
  /\ Returned = <<>>

\* C4: every sweep ends, also against a misbehaving server: the cursor
\* advances strictly with every request, so a name.com list function sends
\* no more requests than the server has page numbers.
C4_SweepTerminates ==
  op \in NameComListOps => Len(requests) <= MaxPage

\* C5: the page numbers a name.com list function asks for are strictly
\* increasing, whatever the server answers.
C5_CursorsStrictlyIncrease ==
  op \in NameComListOps =>
    \A i \in 1..(Len(requests) - 1) : requests[i].cursor < requests[i + 1].cursor

NameComOps == NameComBodyOps \cup NameComVoidOps \cup NameComListOps

\* The statuses that are no success for a name.com function: all but 204
\* for a function that returns nothing, all but 200 and 201 for the others.
NonSuccess(o, status) ==
  IF o \in NameComVoidOps THEN status # 204 ELSE status \notin {200, 201}

\* C6: hello, get, post, put and patch of the name.com client return Ok
\* exactly when the response has status 200 or 201 and a body that decodes
\* as T, and the Ok holds the decoded body; every other response, also one
\* with status 204 or another 2xx, is an error.
C6_BodySuccess ==
  (Done /\ op \in NameComBodyOps) =>
    LET r == LastResponse
    IN /\ result.kind \in {"Ok", "Http", "Json", "Api"}
       /\ result.kind = "Ok" <=>
            (r.sendOk /\ r.status \in {200, 201} /\ r.readOk
               /\ Decodes(ty, r.body))
       /\ result.kind = "Ok" => result.value = Decode(ty, r.body)

\* A 202 with a body that decodes as T is an error.
C6_Witness ==
  /\ Done
  /\ op = "NameDotCom::put"
  /\ LastResponse.sendOk
  /\ LastResponse.readOk
  /\ LastResponse.status = 202
  /\ Decodes(ty, LastResponse.body)
  /\ result.kind = "Api"

\* The body has the shape of name.com's error: a JSON object with a string
\* message and, if it has details, string details.
ErrorShape(body) ==
  /\ body.json
  /\ body.obj.message.t = "string"
  /\ body.obj.details.t \in {"absent", "string"}

\* C7: delete of the name.com client returns Ok(()) for a 204 without
\* reading the body; for any other status (200 and 201 too) it returns an
\* Error::Api whose message is made from the body.
C7_VoidSuccess ==
  (Done /\ op \in NameComVoidOps /\ LastResponse.sendOk) =>
    LET r == LastResponse
    IN IF r.status = 204
         THEN result = Outcome(Ok(EmptyObject, 0)) /\ bodyReads = 0
         ELSE /\ result.kind = "Api"
              /\ bodyReads = 1
              /\ r.readOk =>
                   result.message = IF ErrorShape(r.body)
                                      THEN r.body.obj.message.s
                                      ELSE r.body.text

\* A 204 with an empty body.
C7_Witness ==
  /\ Done
  /\ op = "NameDotCom::delete"
  /\ LastResponse = Response(TRUE, 204, TRUE, Body_Empty)
  /\ result.kind = "Ok"
  /\ bodyReads = 0

\* A name.com call got a response with a status that is no success, and
\* read its body.
ErrorPath ==
  /\ Done
  /\ op \in NameComOps
  /\ LastResponse.sendOk
  /\ LastResponse.readOk
  /\ NonSuccess(op, LastResponse.status)

\* C8 as stated: for a status that is no success and a body that is a JSON
\* object with a string message, with or without details, the call fails
\* with an Error::Api whose message is that message field.
C8_Original ==
  (ErrorPath /\ LastResponse.body.json
     /\ LastResponse.body.obj.message.t = "string") =>
    /\ result.kind = "Api"
    /\ result.message = LastResponse.body.obj.message.s

\* C8, amended: for a status that is no success and a body that is a JSON
\* object with a string message and with no details or string details, the
\* call fails with an Error::Api whose message is that message field.
C8_ErrorMessage ==
  (ErrorPath /\ ErrorShape(LastResponse.body)) =>
    /\ result.kind = "Api"
    /\ result.message = LastResponse.body.obj.message.s

\* A 404 with a message and details.
C8_Witness ==
  /\ ErrorPath
  /\ op = "NameDotCom::post"
  /\ LastResponse.status = 404
  /\ LastResponse.body = Body_MessageDetails
  /\ result.kind = "Api"
  /\ result.message = "Not Found"

\* C9: for a status that is no success and a body that has not the shape
\* of the error (no JSON, or no string message), the call fails with an
\* Error::Api whose message is the raw text of the body, never with a
\* decoding error.
C9_RawFallback ==
  (ErrorPath /\ ~ErrorShape(LastResponse.body)) =>
    /\ result.kind = "Api"
    /\ result.message = LastResponse.body.text

\* The page request of a sweep is answered 404 with an HTML page.
C9_Witness ==
  /\ ErrorPath
  /\ op = "VanityNameserverClient::list"
  /\ LastResponse.body = Body_Html
  /\ result.kind = "Api"
  /\ result.message = "<html>502 Bad Gateway</html>"

\* A porkbun call read the body of a response that passed the status
\* check, and the body is a JSON object whose status is "ERROR".
EnvelopeError ==
  /\ Done
  /\ op \in PorkbunAllOps
  /\ LastResponse.sendOk
  /\ LastResponse.status < 400
  /\ LastResponse.readOk
  /\ LastResponse.body.json
  /\ LastResponse.body.obj.status = JStr("ERROR")

\* C10 as stated: for a body whose status is "ERROR" the call fails with
\* an Error::Api whose message is the body's message when it has one and
\* "Unknown API error" when the message is missing or null.
C10_Original ==
  EnvelopeError =>
    /\ result.kind = "Api"
    /\ result.message =
         IF LastResponse.body.obj.message.t \in {"absent", "null"}
           THEN "Unknown API error"
           ELSE LastResponse.body.obj.message.s

\* C10, amended: for a body whose status is "ERROR" the call never returns
\* Ok; it fails with an Error::Api whose message is the body's message when
\* that is a string and "Unknown API error" when it is missing or null, and
\* with an Error::Json when the message is of another JSON type.  The same
\* for post and post_unauthenticated.
C10_EnvelopeError ==
  EnvelopeError =>
    LET message == LastResponse.body.obj.message
    IN /\ result.kind # "Ok"
       /\ message.t = "string" =>
            result.kind = "Api" /\ result.message = message.s
       /\ message.t \in {"absent", "null"} =>
            result.kind = "Api" /\ result.message = "Unknown API error"
       /\ message.t \notin {"absent", "null", "string"} =>
            result.kind = "Json"

\* get_pricing (post_unauthenticated) is answered with an "ERROR" whose
\* message is null.
C10_Witness ==
  /\ EnvelopeError
  /\ op = "Porkbun::get_pricing"
  /\ LastResponse.body = Body_ErrorMessageNull
  /\ result.kind = "Api"
  /\ result.message = "Unknown API error"

\* A porkbun call that is no sweep read the body of a response that passed
\* the status check, and the body is a JSON object whose status is a string
\* other than "ERROR".
EnvelopeSuccess ==
  /\ Done
  /\ op \in PorkbunOps
  /\ LastResponse.sendOk
  /\ LastResponse.status < 400
  /\ LastResponse.readOk
  /\ LastResponse.body.json
  /\ LastResponse.body.obj.status.t = "string"
  /\ LastResponse.body.obj.status.s # "ERROR"

\* The call returns what serde_json makes of the whole body as T: the T
\* with every field it declares (status too), or an Error::Json.
DecodedAsT ==
  IF Decodes(ty, LastResponse.body)
    THEN result = Outcome(Ok(Decode(ty, LastResponse.body), 1))
    ELSE result.kind = "Json"

\* C11 as stated: for every body whose status is not "ERROR" the call
\* returns what the decoding of the whole body as T gives.
C11_Original == EnvelopeSuccess => DecodedAsT

\* C11, amended: for every body that the envelope accepts (a string status,
\* and a message that is absent, null or a string) and whose status is not
\* "ERROR", the call returns what the decoding of the whole, unaltered body
\* as T gives: an Ok with every field T declares, the status among them,
\* or an Error::Json when the body has not the shape of T.
C11_FullDecode ==
  (EnvelopeSuccess /\ StatusResponse(LastResponse.body)) =>
    /\ DecodedAsT
    /\ (result.kind = "Ok" /\ "status" \in FieldsOf(ty)) =>
         result.value.status = LastResponse.body.obj.status

\* ping is answered with a "SUCCESS" and the caller's address: the
\* PingResponse returned holds both the status and the address.
C11_Witness ==
  /\ EnvelopeSuccess
  /\ op = "Porkbun::ping"
  /\ LastResponse.body = Body_Ping
  /\ result.kind = "Ok"
  /\ result.value.status = JStr("SUCCESS")
  /\ result.value.yourIp = JStr("192.0.2.1")

\* C12: a porkbun call whose response has a status outside 2xx fails with
\* an Error::Http without reading the body: never an Ok, and never an error
\* made from the body.
C12_Non2xxIsHttp ==
  (Done /\ op \in PorkbunAllOps /\ LastResponse.sendOk
     /\ ~(LastResponse.status >= 200 /\ LastResponse.status <= 299)) =>
    /\ result.kind = "Http"
    /\ bodyReads = 0

\* C13: when a name.com call gets a 200 or 201 whose body was read and has
\* not the shape of T, it fails with an Error::Json, not with an Error::Http
\* and not with an Error::Api.
C13_DecodeErrorIsJson ==
  (Done /\ op \in NameComBodyOps \cup NameComListOps /\ LastResponse.sendOk
     /\ LastResponse.status \in {200, 201} /\ LastResponse.readOk
     /\ ~Decodes(ty, LastResponse.body)) =>
    result.kind = "Json"

\* The last exchange of the call failed on the network: send() failed, or
\* the response came and the reading of its body failed (a delete leaves
\* the body of a 204 unread, a porkbun call that of a 4xx or 5xx).
NetworkFailed ==
  /\ Done
  /\ \/ ~LastResponse.sendOk
     \/ /\ ~LastResponse.readOk
        /\ op \in NameComVoidOps => LastResponse.status # 204
        /\ op \in PorkbunAllOps => ~error_for_status(LastResponse.status)

\* C14: a call whose exchange failed on the network, while sending the
\* request or while reading the body of the response, fails with an
\* Error::Http; also when the body is that of a name.com error response.
C14_NetworkFailureIsHttp == NetworkFailed => result.kind = "Http"

\* C15 as stated: every request of a porkbun function, get_pricing too, is
\* a POST whose body holds the two fields of the client's credentials.
C15_Original ==
  op \in PorkbunAllOps =>
    \A i \in 1..Len(requests) :
      requests[i].method = "POST" /\ Auth \subseteq requests[i].body

\* C15, amended: every request of a porkbun function is a POST with a JSON
\* body; for every function but get_pricing the body holds the two fields
\* of the client's credentials next to the fields of the function's own
\* request; the body of get_pricing's request is the empty object.
C15_EmbeddedCredentials ==
  op \in PorkbunAllOps =>
    \A i \in 1..Len(requests) :
      /\ requests[i].method = "POST"
      /\ requests[i].basic_auth = NoAuth
      /\ IF op = "Porkbun::get_pricing"
           THEN requests[i].body = {}
           ELSE /\ {"apikey", "secretapikey"} \subseteq requests[i].body
                /\ requests[i].body = {"apikey", "secretapikey"} \cup BodyOf(op)

\* The second request of a list_all: the credentials next to start and
\* includeLabels.
C15_Witness ==
  /\ op = "Domain::list_all"
  /\ Len(requests) = 2
  /\ requests[2].method = "POST"
  /\ requests[2].body = {"apikey", "secretapikey", "start", "includeLabels"}

\* C16: every request of a name.com function (hello, get, post, put,
\* patch, delete and each page request of a list function) carries the
\* client's username and token as Basic authorization, and its body is the
\* caller's payload (none for hello, get, delete and the list functions)
\* with no field of the credentials in it.
C16_BasicAuth ==
  op \in NameComOps =>
    \A i \in 1..Len(requests) :
      /\ requests[i].basic_auth =
           [scheme |-> "Basic", username |-> client.name_com.username,
            password |-> client.name_com.token]
      /\ requests[i].body =
           IF op \in {"NameDotCom::post", "NameDotCom::put", "NameDotCom::patch"}
             THEN Payload
             ELSE {}
      /\ requests[i].body \cap {"username", "token", "apikey", "secretapikey"}
           = {}

\* The second page request of a sweep carries the Basic authorization.
C16_Witness ==
  /\ op = "DomainsClient::list"
  /\ Len(requests) = 2
  /\ requests[2].cursor = 2
  /\ requests[2].method = "GET"
  /\ requests[2].basic_auth.scheme = "Basic"
  /\ requests[2].basic_auth.password = client.name_com.token

SweepOps == NameComListOps \cup PorkbunListOps

\* A call that is no sweep makes one exchange, whatever its outcome.
SingleExchange ==
  (op \in Ops \ SweepOps) =>
    /\ Len(requests) <= 1
    /\ Done => Len(requests) = 1 /\ Len(responses) = 1

\* A request is sent only after the response to the one before it, and no
\* request follows a failed exchange: the call returns that error.
NoRequestAfterFailure ==
  /\ Len(requests) - Len(responses) \in {0, 1}
  /\ op \in SweepOps =>
       \A i \in 1..Len(responses) :
         HelperOutcome(i).kind # "Ok" =>
           Len(requests) = i /\ Done /\ result = Outcome(HelperOutcome(i))

\* A sweep makes one exchange for each cursor value: no value is asked for
\* twice.
OneExchangePerCursor ==
  op \in SweepOps =>
    \A i, j \in 1..Len(requests) :
      i # j => requests[i].cursor # requests[j].cursor

\* C17: no call retries: a call that is no sweep makes exactly one
\* exchange, a sweep makes exactly one exchange for each cursor value it
\* visits, and no request follows a failed exchange.
C17_NoRetry == SingleExchange /\ OneExchangePerCursor /\ NoRequestAfterFailure

\* The call has one outcome: none before it returns, and an Ok or one of
\* the three errors once it has returned.
OneOutcome ==
  IF Done THEN result.kind \in {"Ok", "Http", "Json", "Api"}
  ELSE result = Outcome(Pending)

\* C18 as stated: a call that ends in a success, an API error or a decode
\* error has read the body of each of its responses exactly once.
C18_Original ==
  /\ OneOutcome
  /\ (Done /\ result.kind \in {"Ok", "Api", "Json"}) =>
       bodyReads = Len(responses)

\* The call reads the body of the response: every response but the 204 of
\* a name.com delete and the 4xx or 5xx of a porkbun call.
ReadsBody(response) ==
  /\ response.sendOk
  /\ op \in NameComVoidOps => response.status # 204
  /\ op \in PorkbunAllOps => ~error_for_status(response.status)

\* C18, amended: every call ends in exactly one outcome, and the body of
\* each response is read from the network at most once: exactly once on
\* every path that decodes a value, builds an API error or fails to decode
\* (porkbun parses the one buffered text twice), and never when a name.com
\* delete gets its 204 or a porkbun call gets a 4xx or 5xx.
C18_BodyReadOnce ==
  /\ OneOutcome
  /\ bodyReads = Cardinality({i \in 1..Len(responses) : ReadsBody(responses[i])})
  /\ (Done /\ result.kind \in {"Api", "Json"}) => ReadsBody(LastResponse)
  /\ (Done /\ result.kind = "Ok" /\ op \notin NameComVoidOps) =>
       bodyReads = Len(responses)

\* A list_all of two batches and the empty one: three bodies, each read
\* once.
C18_Witness ==
  /\ op = "Domain::list_all"
  /\ Done
  /\ result.kind = "Ok"
  /\ Len(responses) = 3
  /\ bodyReads = 3

LastPageReached ==
  /\ responses # <<>>
  /\ Len(responses) = Len(requests)
  /\ IF op \in NameComListOps
       THEN LastResponse.body.obj.nextPage.t \in {"absent", "null"}
       ELSE LastResponse.body.obj.items.a = <<>>

\* C20: a sweep cancelled while a request is in flight returns nothing: the
\* caller never gets an Ok with the items gathered so far; an Ok is only
\* ever returned by a sweep that ran to its last page.
C20_NoPartialOnCancel ==
  op \in SweepOps =>
    /\ pc = "cancelled" => result = Outcome(Pending)
    /\ result.kind = "Ok" => pc = "done" /\ LastPageReached

\* A list_all is cancelled during its second request, with the items of
\* the first batch gathered.
C20_Witness ==
  /\ op = "Domain::list_all"
  /\ pc = "cancelled"
  /\ Len(requests) = 2
  /\ Len(responses) = 1
  /\ Len(all) = MaxItems
  /\ result.kind = "none"

\* The items of the first i responses of the sweep, in the order received.
RECURSIVE ReceivedItems(_)
ReceivedItems(i) ==
  IF i = 0 THEN <<>>
  ELSE ReceivedItems(i - 1)
         \o (IF HelperOutcome(i).kind = "Ok"
               THEN HelperOutcome(i).value.items.a
               ELSE <<>>)

\* C21: within a sweep at most one exchange is in flight: a request is
\* sent only when every earlier request has its response, and by then the
\* items of every response received are appended, in the order received.
C21_Sequential ==
  op \in SweepOps =>
    /\ Len(requests) - Len(responses) \in {0, 1}
    /\ pc = "inflight" <=> Len(requests) = Len(responses) + 1
    /\ all = ReceivedItems(Len(responses))

\* The second page request of a sweep is in flight: the first response is
\* in, and its two items are appended.
C21_Witness ==
  /\ op = "DnsClient::list_records"
  /\ pc = "inflight"
  /\ Len(requests) = 2
  /\ Len(responses) = 1
  /\ all = Items(1, 2)

\* What the function called makes of a response to its own request (of a
\* call that is no sweep).
OwnOutcome(response) ==
  CASE op \in NameComBodyOps -> NameDotCom_get(ty, response)
    [] op \in NameComVoidOps -> NameDotCom_delete(response)
    [] op = "Porkbun::get_pricing" -> Porkbun_post_unauthenticated(ty, response)
    [] op \in PorkbunOps \ {"Porkbun::get_pricing"} -> Porkbun_post(ty, response)
    [] op = "Dns::retrieve_record_by_id" -> Dns_retrieve_record_by_id(response)
    [] op = "Dns::get_dnssec_records" ->
         ResponseField(Porkbun_post(ty, response), "records")
    [] OTHER -> ResponseField(Porkbun_post(ty, response), "items")

\* The cursor a sweep asks for after its i-th response.
CursorAfter(i) ==
  IF op \in NameComListOps THEN responses[i].body.obj.nextPage.n
  ELSE requests[i].cursor + Len(responses[i].body.obj.items.a)

\* The first call's requests, locals and outcome are those its own
\* responses give.
MainIsolated ==
  /\ (op \in Ops \ SweepOps /\ Done) =>
       /\ Len(requests) = 1
       /\ result = Outcome(OwnOutcome(LastResponse))
  /\ op \in SweepOps =>
       /\ all = ReceivedItems(Len(responses))
       /\ \A k \in 1..Len(all) : all[k][1] >= 0
       /\ \A i \in 1..(Len(requests) - 1) : requests[i + 1].cursor = CursorAfter(i)
       /\ Done =>
            IF HelperOutcome(Len(responses)).kind = "Ok"
              THEN result = Outcome(Ok(ItemsValue(all), 1))
              ELSE result = Outcome(HelperOutcome(Len(responses)))

\* The same for the second call.
PeerIsolated ==
  /\ \A k \in 1..Len(peer.all) : peer.all[k][1] < 0
  /\ Len(peer.all) <= Len(peer.got)
  /\ \A i \in 1..Len(peer.sent) :
       peer.sent[i] = IF i = 1 THEN 1 ELSE peer.got[i - 1].body.obj.nextPage.n
  /\ peer.pc = "done" =>
       LET r == NameDotCom_get("ListDnsRecordsResponse", peer.got[Len(peer.got)])
       IN IF r.kind = "Ok" THEN peer.result = Outcome(Ok(ItemsValue(peer.all), 1))
          ELSE peer.result = Outcome(r)
  /\ peer.pc \in {"idle", "send", "inflight", "cancelled"} =>
       peer.result = Outcome(Pending)

\* C22: of two calls at the same time on one client, each has the requests
\* and the outcome that the responses to its own requests give, whatever
\* the other does (also when the other fails or is cancelled), and the
\* items of one sweep are never in the Vec or the result of the other.
C22_Isolated == MainIsolated /\ PeerIsolated

\* A sweep of two pages returns its three items although the other call,
\* which had gathered an item, was cancelled meanwhile.
C22_Witness ==
  /\ op = "DomainsClient::list"
  /\ Done
  /\ result.kind = "Ok"
  /\ Returned = Items(1, 2) \o Items(2, 1)
  /\ peer.pc = "cancelled"
  /\ Len(peer.all) = 1

\* The credentials and the host a request carries are those the
\* constructors were given: Basic authorization and host of a name.com
\* request, the fields of Auth in the body of a porkbun request.
SentAsGiven(r) ==
  /\ r.basic_auth.scheme = "Basic" =>
        /\ r.basic_auth.username = given.username
        /\ r.basic_auth.password = given.token
  /\ \A f \in DOMAIN r.auth : r.auth[f] = given[f]
  /\ r.host = IF op \in NameComOps THEN given.host ELSE BASE_URL

\* C23: in every state of every sequence of calls, succeeded or failed,
\* the fields of the clients are those the constructors set from their
\* arguments, and every request sent, the last one too, carries the
\* credentials and the host the constructors were given.
C23_FixedAtConstruction ==
  /\ client.name_com =
       [host |-> given.host, username |-> given.username,
        token |-> given.token]
  /\ client.porkbun.auth =
       [secretapikey |-> given.secretapikey, apikey |-> given.apikey]
  /\ \A i \in 1..Len(requests) : SentAsGiven(requests[i])

\* After a failed call on the client built with new_dev, a call of a
\* porkbun sub-client has sent its request with the two keys given.
C23_Witness ==
  /\ Len(history) = 1
  /\ history[1] = "Api"
  /\ given.host = DEVELOPMENT_HOST
  /\ op = "Dns::create_record"
  /\ Len(requests) = 1
  /\ requests[1].auth.apikey = "pk1_b"
  /\ requests[1].auth.secretapikey = "sk1_b"
  /\ result.kind = "Ok"

\* The response that post accepts as a DnsRecordListResponse: a status
\* below 400, a readable JSON body with a string status that is not
\* "ERROR", a message that is absent, null or a string, and an array of
\* records.
RecordListSuccess ==
  /\ LastResponse.sendOk
  /\ LastResponse.status < 400
  /\ LastResponse.readOk
  /\ LastResponse.body.json
  /\ LastResponse.body.obj.status.t = "string"
  /\ LastResponse.body.obj.status.s # "ERROR"
  /\ LastResponse.body.obj.message.t \in {"absent", "null", "string"}
  /\ LastResponse.body.obj.items.t = "array"

C24_WitnessNone ==
  /\ Done
  /\ op = "Dns::retrieve_record_by_id"
  /\ LastResponse.body = BatchBody(0, 0)
  /\ result.kind = "Ok"
  /\ Returned = <<>>

\* A 2xx response whose body was read and is no JSON, has no string
\* status, or has a status other than "ERROR" and does not decode as T.
Undecodable(T, response) ==
  /\ response.sendOk
  /\ response.status \in 200..299
  /\ response.readOk
  /\ \/ ~response.body.json
     \/ response.body.obj.status.t # "string"
     \/ /\ response.body.obj.status.s # "ERROR"
        /\ ~Decodes(T, response.body)

\* C25: a porkbun call that receives a 2xx response whose body is no JSON,
\* lacks a string status, or has a status other than "ERROR" and does not
\* match T, returns at once with Error::Json: not Error::Api, not
\* Error::Http and not an Ok value.
C25_UndecodableIsJson ==
  op \in PorkbunAllOps =>
    \A i \in 1..Len(responses) :
      Undecodable(ty, responses[i]) =>
        /\ i = Len(responses)
        /\ Done
        /\ result.kind = "Json"
        /\ result.value = EmptyObject

\* ping has received a 200 whose body has the status SUCCESS and no
\* yourIp, and has returned Error::Json.
C25_Witness ==
  /\ Done
  /\ op = "Porkbun::ping"
  /\ LastResponse.status = 200
  /\ LastResponse.body = Body_Success
  /\ result.kind = "Json"

\* The last items of a sequence are those of a page.
EndsWith(seq, items) ==
  /\ Len(items) <= Len(seq)
  /\ SubSeq(seq, Len(seq) - Len(items) + 1, Len(seq)) = items

\* C26: in a sweep of a name.com list function, the page asked for after
\* response k is the nextPage of response k, whatever the page asked for
\* before; the items of a page are in the Vec once the page is received,
\* before the sweep goes on or returns, so that the list returned ends with
\* the items of the page that has no nextPage (null or absent); and the
\* sweep returns Ok after a page exactly when that page has no nextPage,
\* however many items it holds.
C26_CursorIsNextPage ==
  op \in NameComListOps =>
    /\ \A k \in 1..Len(responses) :
         HelperOutcome(k).kind = "Ok" =>
           LET body == responses[k].body.obj
           IN /\ k < Len(requests) =>
                   /\ body.nextPage.t = "number"
                   /\ requests[k + 1].cursor = body.nextPage.n
              /\ (k = Len(responses) /\ body.nextPage.t = "number") =>
                   /\ ~Done
                   /\ page = body.nextPage.n
                   /\ EndsWith(all, body.items.a)
              /\ (k = Len(responses) /\ body.nextPage.t # "number") =>
                   /\ Done
                   /\ result.kind = "Ok"
                   /\ EndsWith(Returned, body.items.a)
    /\ (Done /\ result.kind = "Ok") =>
         /\ HelperOutcome(Len(responses)).kind = "Ok"
         /\ LastResponse.body.obj.nextPage.t \in {"null", "absent"}

\* Page 1 holds no item and names page 3; page 3 holds two items and has no
\* nextPage field: the sweep asked for pages 1 and 3 and returned the two
\* items.
C26_Witness ==
  /\ op = "UrlForwardingClient::list"
  /\ Done
  /\ result.kind = "Ok"
  /\ CursorsSent = <<1, 3>>
  /\ responses[1].body = PageBody(1, 0, JNum(3))
  /\ responses[2].body = PageBody(3, 2, Absent)
  /\ Returned = Items(3, 2)

\* C27: in Domain::list_all the start of every request is the number of
\* items the sweep has accumulated when it sends it (those of the responses
\* before it), and start is that number all along; the starts sent are
\* strictly increasing; and the list returned has as many items as the
\* start of the last request, the one answered with the empty batch.
C27_OffsetIsCount ==
  op \in PorkbunListOps =>
    /\ start = Len(all)
    /\ \A i \in 1..Len(requests) :
         requests[i].cursor = Len(ReceivedItems(i - 1))
    /\ \A i, j \in 1..Len(requests) :
         i < j => requests[i].cursor < requests[j].cursor
    /\ (Done /\ result.kind = "Ok") =>
         /\ LastResponse.body.obj.items.a = <<>>
         /\ Len(Returned) = requests[Len(requests)].cursor

\* After a batch of one and a batch of two the third request is in flight
\* with start 3, and three items are in the Vec.
C27_Witness ==
  /\ op = "Domain::list_all"
  /\ pc = "inflight"
  /\ CursorsSent = <<0, 1, 3>>
  /\ Len(all) = 3
  /\ Len(responses) = 2

\* The jobs the threads hold between the call of register_teardown and the
\* try_send.
InHand ==
  {registry.thread[t].job : t \in {u \in Threads : registry.thread[u].pc # "idle"}}

\* C28: every job that try_send put into the channel is spawned and has
\* finished when global_teardown returns; the worker thread ends only when
\* the sender is dropped, the channel is empty and every task it spawned
\* has finished; and with several threads registering, every job is in the
\* channel, spawned (once) or dropped.
C28_GracefulDrain ==
  /\ registry.global_teardown = "returned" =>
       /\ registry.worker = "exited"
       /\ Queued = {}
       /\ Spawned \subseteq registry.finished
  /\ registry.worker = "exited" =>
       /\ ~registry.sender
       /\ registry.channel = <<>>
       /\ registry.awaited = Len(registry.tasks)
       /\ Spawned \subseteq registry.finished
  /\ Queued \cup Spawned \cup registry.dropped \cup InHand = 1..registry.jobs
  /\ Queued \cap Spawned = {}
  /\ Cardinality(Spawned) = Len(registry.tasks)
  /\ Cardinality(Queued) = Len(registry.channel)

\* global_teardown has returned after every job of the run, more than the
\* channel holds at a time, was enqueued, spawned and finished.
C28_Witness ==
  /\ registry.global_teardown = "returned"
  /\ registry.finished = 1..MaxJobs
  /\ Len(registry.tasks) = MaxJobs

\* C29: once global_teardown has dropped the sender, the worker thread
\* ends and the join returns, whatever the threads that register jobs do
\* meanwhile and although global_teardown holds the mutex all the time;
\* this for a worker that is scheduled and cleanup jobs that come to an end.
C29_NoDeadlock ==
  (registry.global_teardown = "join") ~>
    (registry.global_teardown = "returned" /\ registry.worker = "exited")

\* global_teardown has returned while a thread that called
\* register_teardown during the join is still at the mutex.
C29_Witness ==
  /\ registry.global_teardown = "returned"
  /\ registry.worker = "exited"
  /\ registry.tasks # <<>>
  /\ \E t \in Threads : registry.thread[t].pc = "lock"

\* A thread in register_teardown that waits for the mutex while
\* global_teardown holds it.
Blocked(t) ==
  /\ registry.thread[t].pc = "lock"
  /\ registry.mutex = "global_teardown"

\* The channel never holds more than its capacity, and a job that was
\* dropped is never in the channel, never spawned and never run.
BoundedAndLost ==
  /\ Len(registry.channel) <= ChannelCapacity
  /\ registry.dropped \cap (Queued \cup Spawned \cup registry.finished) = {}

\* C30 as stated: a thread in register_teardown never blocks; the channel
\* never holds more than its capacity; a dropped job is never run.
C30_Original ==
  /\ \A t \in Threads : ~Blocked(t)
  /\ BoundedAndLost

\* What register_teardown does with the job once it holds the mutex.
TrySendStep(t) ==
  (registry.thread[t].pc = "locked" /\ registry'.thread[t].pc = "idle") =>
    LET job == registry.thread[t].job
    IN IF registry.sender /\ Len(registry.channel) < ChannelCapacity
         THEN /\ registry'.channel = Append(registry.channel, job)
              /\ registry'.dropped = registry.dropped
         ELSE /\ registry'.channel = registry.channel
              /\ registry'.dropped = registry.dropped \cup {job}

\* C30, amended: register_teardown may wait for the registry mutex, which
\* global_teardown holds until the worker has ended, but it never waits for
\* room in the channel: with the mutex held it returns at once, having
\* enqueued the job, or having dropped it when the channel is full or the
\* sender is taken; the channel never holds more than its capacity, and a
\* dropped job is never enqueued, spawned or run.
C30_TrySendOrDrop ==
  /\ [](BoundedAndLost
         /\ \A t \in Threads :
              registry.thread[t].pc = "locked" => ENABLED Register_TrySend(t))
  /\ [][\A t \in Threads : TrySendStep(t)]_vars

\* A job has just been dropped because the channel was full: the sender is
\* in place and the channel holds as many jobs as it can.
C30_Witness ==
  /\ registry.sender
  /\ Len(registry.channel) = ChannelCapacity
  /\ registry.dropped # {}
  /\ registry.finished = {}

\* A job has been dropped because global_teardown had taken the sender.
C30_WitnessSenderTaken ==
  /\ ~registry.sender
  /\ registry.dropped # {}
  /\ Len(registry.channel) + Len(registry.tasks) < ChannelCapacity

====
